---------------------------- MODULE Spec2Model ----------------------------
(***************************************************************************)
(* A model of the BLE central of src/src/central.py (the blocking          *)
(* BLECentral and the cooperative AsyncBLECentral, their connection        *)
(* wrapper, and the bluezero device / GATT characteristic they drive) and  *)
(* of the BLE peripherals that serve the IMU.                              *)
(*                                                                         *)
(* Spec      one caller issues connect / read / disconnect / connection()  *)
(*           calls one at a time; every call is applied to a BLECentral    *)
(*           and to an AsyncBLECentral that see the same transport         *)
(*           outcomes.                                                     *)
(* SpecTasks several asyncio tasks share one AsyncBLECentral and           *)
(*           interleave at its await points.                               *)
(* SpecPoll  the wait for service discovery of one connect, one read of    *)
(*           device.services_resolved at a time.                           *)
(*                                                                         *)
(* SpecPeripheral  the peripherals: IMUPeripheral and AsyncIMUPeripheral   *)
(*           of src/src/peripheral.py and the pull-refresh IMUPeripheral   *)
(*           of src/BerryIMU/central.py. start() runs in one thread,       *)
(*           stop() is called from another.                                *)
(***************************************************************************)
EXTENDS Integers, Sequences, FiniteSets, TLC

VARIABLES
    cen,      \* the BLECentral session and the device it owns
    acen,     \* the AsyncBLECentral session and the device it owns
    res,      \* what the last BLECentral call did and returned
    ares,     \* what the last AsyncBLECentral call did and returned
    call,     \* the last call: its name, argument and the state it started in
    scope,    \* "in" between entering and leaving a connection() block
    tsess,    \* SpecTasks: the AsyncBLECentral session the tasks share
    task,     \* SpecTasks: each task's coroutine frame
    poll,     \* SpecPoll: one connect's wait for service discovery
    per,      \* SpecPeripheral: the IMUPeripheral, its adapter and its advertisement
    pcall,    \* SpecPeripheral: the last step taken on the peripheral
    codec,    \* SpecCodec: the frame in flight, the sender and the receiver
    dev       \* SpecMicro: the CentralDevice and the radio stack under it

vars == <<cen, acen, res, ares, call, scope, tsess, task, poll, per, pcall, codec, dev>>

----------------------------------------------------------------------------
(* Configuration and bounds *)

\* BLECentral.__init__ defaults
max_retries == 3
\* retry_delay = 2.0 s, in units of the 0.5 s poll sleep
retry_delay == 4
\* connect: retry = 30
PollBudget == 30

\* transport connects one session may issue in a run of the model
MaxEpoch == 3
\* asyncio tasks sharing one session in SpecTasks
NumTasks == 2
\* gap_connect calls the radio stack holds at a time in SpecMicro
MaxConnects == 2

\* char_uuids, in the insertion order the loop of _load_characteristics walks
ChannelNames == <<"accel", "gyro", "mag">>
Channels == {ChannelNames[i] : i \in 1..Len(ChannelNames)}
\* sensor_type arguments a caller may pass: the three channels and a wrong name
SensorTypes == Channels \cup {"temp"}

\* polls after which device.services_resolved turns True:
\* at once, after one poll, after the last poll, never within the budget
ResolveDelays == {0, 1, PollBudget, PollBudget + 1}

\* payloads char.read_value() may hand back
Payloads == { <<0, 0, 0, 0, 0, 0>>, <<100, 0, 56, 255, 44, 1>> }

\* exception classes `except Exception` catches
Exceptions == {"ConnectError", "TimeoutError", "RuntimeError", "ResolveError",
               "AttributeError", "ReadError", "DisconnectError", "BodyError"}

----------------------------------------------------------------------------
(* Values *)

NoHandle == [name |-> "", epoch |-> 0]
NoChars == [present |-> FALSE, handles |-> [n \in {} |-> NoHandle]]
NoData == <<>>

\* BLECentral.__init__: connected = False, _characteristics = None;
\* link/epoch are the device's side: whether its link is up and how many
\* links it has opened
InitSession == [connected |-> FALSE, chars |-> NoChars, link |-> FALSE, epoch |-> 0]

NoResult == [ret |-> "None", data |-> NoData, exc |-> "none", caught |-> "none",
             calls |-> <<>>, readHandle |-> NoHandle, disconnects |-> 0]

Outcome(s, ret, exc, caught, calls) ==
    [s |-> s, r |-> [NoResult EXCEPT !.ret = ret, !.exc = exc, !.caught = caught,
                                     !.calls = calls]]

\* a little-endian signed 16-bit integer
sint16(lo, hi) == LET u == lo + 256 * hi IN IF u >= 32768 THEN u - 65536 ELSE u

\* the Python slice b[i:j]
slice(b, i, j) ==
    LET hi == IF j < Len(b) THEN j ELSE Len(b)
    IN IF i >= hi THEN <<>> ELSE SubSeq(b, i + 1, hi)

\* int.from_bytes(b, byteorder='little', signed=True) of at most two bytes
sint16_to_int(b) ==
    IF Len(b) = 0 THEN 0
    ELSE IF Len(b) = 1 THEN (IF b[1] >= 128 THEN b[1] - 256 ELSE b[1])
    ELSE sint16(b[1], b[2])

\* variant: the third value is always read from the sixth byte on
bytes_to_xyz_fixed(b) ==
    << sint16_to_int(slice(b, 0, 2)), sint16_to_int(slice(b, 2, 4)),
       sint16_to_int(slice(b, 5, 7)) >>

\* tools.bytes_to_xyz: b[0:2], b[2:4] and b[4:6] as little-endian signed
\* integers; it does not look at the length of b
bytes_to_xyz(b) ==
    << sint16_to_int(slice(b, 0, 2)), sint16_to_int(slice(b, 2, 4)),
       sint16_to_int(slice(b, 4, 6)) >>

Count(seq, x) == Cardinality({i \in 1..Len(seq) : seq[i] = x})

\* struct format 'h': the values it takes; struct.error beyond them
fits_h(v) == v >= -32768 /\ v <= 32767
\* struct.pack('<h', v): two's complement, low byte first
pack_h(v) == LET u == IF v < 0 THEN v + 65536 ELSE v IN << u % 256, u \div 256 >>

\* variant: the three values most significant byte first
pack_hhh_big_endian(xyz) ==
    IF \A i \in 1..3 : fits_h(xyz[i])
    THEN [exc |-> "none",
          data |-> << pack_h(xyz[1])[2], pack_h(xyz[1])[1], pack_h(xyz[2])[2],
                      pack_h(xyz[2])[1], pack_h(xyz[3])[2], pack_h(xyz[3])[1] >>]
    ELSE [exc |-> "StructError", data |-> NoData]

\* struct.pack('<hhh', int(x), int(y), int(z)) of three integer readings
pack_hhh(xyz) ==
    IF \A i \in 1..3 : fits_h(xyz[i])
    THEN [exc |-> "none", data |-> pack_h(xyz[1]) \o pack_h(xyz[2]) \o pack_h(xyz[3])]
    ELSE [exc |-> "StructError", data |-> NoData]

\* struct.unpack('<hhh', value): struct.error unless value has six bytes
unpack_hhh(b) ==
    IF Len(b) # 6
    THEN [exc |-> "StructError", xyz |-> <<>>]
    ELSE [exc |-> "none",
          xyz |-> << sint16(b[1], b[2]), sint16(b[3], b[4]), sint16(b[5], b[6]) >>]

\* MicroPython's struct.unpack('<hhh', value): ValueError (buffer too small)
\* below six bytes, the first six bytes otherwise
unpack_hhh_micropython(b) ==
    IF Len(b) < 6
    THEN [exc |-> "ValueError", xyz |-> <<>>]
    ELSE [exc |-> "none",
          xyz |-> << sint16(b[1], b[2]), sint16(b[3], b[4]), sint16(b[5], b[6]) >>]

\* the position of the leading bit of n >= 1
RECURSIVE ilog2(_)
ilog2(n) == IF n < 2 THEN 0 ELSE 1 + ilog2(n \div 2)

\* struct.pack('<f', v) of an integer reading (|v| < 2^24, exact in binary32):
\* sign bit, exponent + 127 in eight bits, 23 bits of fraction, low byte first
pack_f(v) ==
    IF v = 0 THEN <<0, 0, 0, 0>>
    ELSE LET a == IF v < 0 THEN -v ELSE v
             e == ilog2(a) + 127
             m == a * 2 ^ (23 - ilog2(a)) - 2 ^ 23
         IN << m % 256, (m \div 256) % 256, (e % 2) * 128 + m \div 65536,
               (IF v < 0 THEN 128 ELSE 0) + e \div 2 >>

\* struct.unpack('<f', b) of four bytes that hold an integer below 2^31
unpack_f(b) ==
    LET e == (b[4] % 128) * 2 + b[3] \div 128
        m == (b[3] % 128) * 65536 + b[2] * 256 + b[1]
        a == IF e < 127 THEN 0
             ELSE IF e >= 150 THEN (2 ^ 23 + m) * 2 ^ (e - 150)
             ELSE (2 ^ 23 + m) \div 2 ^ (150 - e)
    IN IF b[4] >= 128 THEN -a ELSE a

RECURSIVE pack_floats(_)
pack_floats(values) ==
    IF values = <<>> THEN <<>> ELSE pack_f(Head(values)) \o pack_floats(Tail(values))

\* struct.pack('<fffffffff', ACC X, Y, Z, GYR X, Y, Z, MAG X, Y, Z)
pack_9f(xyz) == pack_floats(xyz.accel \o xyz.gyro \o xyz.mag)

\* struct.unpack('<fffffffff', data): struct.error unless data has 36 bytes
unpack_9f(data) ==
    IF Len(data) # 36
    THEN [exc |-> "StructError", values |-> <<>>]
    ELSE [exc |-> "none", values |-> [i \in 1..9 |-> unpack_f(SubSeq(data, 4 * i - 3, 4 * i))]]

\* one pass over the sensor: the (x, y, z) each channel's registers hold, and
\* the channel whose read raises ("none": no read raises)
InRange == [accel |-> <<100, -200, 300>>, gyro |-> <<-1, 0, 1>>,
            mag |-> <<-32768, 32767, 256>>]
OutOfRange == [accel |-> <<32768, 0, 0>>, gyro |-> <<0, -32769, 0>>,
               mag |-> <<7, 8, 9>>]
Samples == {[failAt |-> f, xyz |-> v] : f \in {"none"} \cup Channels,
                                        v \in {InRange, OutOfRange}}
NoSample == [failAt |-> "none", xyz |-> [accel |-> <<0, 0, 0>>, gyro |-> <<0, 0, 0>>,
                                         mag |-> <<0, 0, 0>>]]

----------------------------------------------------------------------------
(* Transport outcomes one call may meet *)

\* conn: device.connect() succeeds or raises; delay: polls until
\* services_resolved; bad/kind: the first descriptor (0: none) that fails to
\* resolve and whether resolve_gatt() returns False or raises
ConnectEnvs == [conn : {"ok", "fail"}, delay : ResolveDelays,
                bad : 0..Len(ChannelNames), kind : {"false", "raise"}]
\* the outcomes that differ in what the code sees
ConnectEnv == {e \in ConnectEnvs :
                 /\ (e.conn = "fail" => e.delay = 0 /\ e.bad = 0)
                 /\ (e.delay > PollBudget => e.bad = 0)
                 /\ (e.bad = 0 => e.kind = "false")}
\* a call that opens no link meets no connect outcome
IdleEnv == [conn |-> "ok", delay |-> 0, bad |-> 0, kind |-> "false"]
\* read: char.read_value() returns a payload, raises, or raises with the link lost
ReadEnvs == [read : {"ok", "error", "lost"}, payload : Payloads]
ReadEnv == {e \in ReadEnvs : e.read # "ok" => e.payload = <<0, 0, 0, 0, 0, 0>>}
IdleRead == [read |-> "ok", payload |-> <<0, 0, 0, 0, 0, 0>>]
\* the transport brings up the link, the services and every characteristic
ComesUp(e) == e.conn = "ok" /\ e.delay <= PollBudget /\ e.bad = 0
\* disc: device.disconnect() succeeds or raises
DiscEnv == {"ok", "fail"}
\* the caller is interrupted (KeyboardInterrupt, task cancellation) in the first
\* sleep of connect's wait for service discovery: device.connect() has returned
InterruptEnv == [conn |-> "interrupt", delay |-> 1, bad |-> 0, kind |-> "false"]

----------------------------------------------------------------------------
(* BLECentral *)

\* connect, the wait for service discovery: the number of 0.5 s sleeps taken
RECURSIVE wait_for_services(_, _, _)
wait_for_services(retry, slept, delay) ==
    IF ~(slept >= delay) /\ retry > 0
    THEN wait_for_services(retry - 1, slept + 1, delay)
    ELSE slept

\* _load_characteristics, the loop: resolves descriptor i and the ones after it
RECURSIVE load_loop(_, _, _, _, _)
load_loop(i, characteristics, calls, epoch, env) ==
    IF i > Len(ChannelNames)
    THEN [exc |-> "none", characteristics |-> characteristics, calls |-> calls]
    ELSE LET name == ChannelNames[i]
             c1 == Append(calls, "resolve_" \o name)
         IN IF env.bad = i
            THEN [exc |-> IF env.kind = "raise" THEN "ResolveError" ELSE "RuntimeError",
                  characteristics |-> characteristics, calls |-> c1]
            ELSE load_loop(i + 1,
                           [n \in DOMAIN characteristics \cup {name} |->
                               IF n = name THEN [name |-> name, epoch |-> epoch]
                               ELSE characteristics[n]],
                           c1, epoch, env)

\* variant: the registry is stored as it is filled, so a failure leaves part of it
load_characteristics_partial(s, env) ==
    LET l == load_loop(1, [n \in {} |-> NoHandle], <<>>, s.epoch, env)
    IN [s |-> [s EXCEPT !.chars = [present |-> DOMAIN l.characteristics # {},
                                   handles |-> l.characteristics]],
        exc |-> l.exc, calls |-> l.calls]

\* variant: a registry already held is kept instead of being resolved again
load_characteristics_cached(s, env) ==
    LET l == load_loop(1, [n \in {} |-> NoHandle], <<>>, s.epoch, env)
    IN IF s.chars.present
       THEN [s |-> s, exc |-> "none", calls |-> <<>>]
       ELSE IF l.exc = "none"
       THEN [s |-> [s EXCEPT !.chars = [present |-> TRUE, handles |-> l.characteristics]],
             exc |-> "none", calls |-> l.calls]
       ELSE [s |-> s, exc |-> l.exc, calls |-> l.calls]

load_characteristics(s, env) ==
    LET l == load_loop(1, [n \in {} |-> NoHandle], <<>>, s.epoch, env)
    IN IF l.exc = "none"
       THEN [s |-> [s EXCEPT !.chars = [present |-> TRUE, handles |-> l.characteristics]],
             exc |-> "none", calls |-> l.calls]
       ELSE [s |-> s, exc |-> l.exc, calls |-> l.calls]

\* variant: the polls spent on the links opened before are not given back
connect_try_spent(s, env) ==
    IF env.conn = "fail"
    THEN [s |-> s, exc |-> "ConnectError", calls |-> <<"connect">>]
    ELSE IF env.conn = "interrupt"
    THEN [s |-> [s EXCEPT !.link = TRUE, !.epoch = @ + 1], exc |-> "KeyboardInterrupt",
          calls |-> <<"connect", "sleep">>]
    ELSE LET s1 == [s EXCEPT !.link = TRUE, !.epoch = @ + 1]
             slept == wait_for_services(PollBudget - s.epoch, 0, env.delay)
             c1 == <<"connect">> \o [i \in 1..slept |-> "sleep"]
         IN IF ~(slept >= env.delay)
            THEN [s |-> s1, exc |-> "TimeoutError", calls |-> c1]
            ELSE LET l == load_characteristics(s1, env)
                 IN IF l.exc # "none"
                    THEN [s |-> l.s, exc |-> l.exc, calls |-> c1 \o l.calls]
                    ELSE [s |-> [l.s EXCEPT !.connected = TRUE], exc |-> "none",
                          calls |-> c1 \o l.calls]

\* connect, the body of its try block
connect_try(s, env) ==
    IF env.conn = "fail"
    THEN [s |-> s, exc |-> "ConnectError", calls |-> <<"connect">>]
    ELSE IF env.conn = "interrupt"
    THEN [s |-> [s EXCEPT !.link = TRUE, !.epoch = @ + 1], exc |-> "KeyboardInterrupt",
          calls |-> <<"connect", "sleep">>]
    ELSE LET s1 == [s EXCEPT !.link = TRUE, !.epoch = @ + 1]
             slept == wait_for_services(PollBudget, 0, env.delay)
             c1 == <<"connect">> \o [i \in 1..slept |-> "sleep"]
         IN IF ~(slept >= env.delay)
            THEN [s |-> s1, exc |-> "TimeoutError", calls |-> c1]
            ELSE LET l == load_characteristics(s1, env)
                 IN IF l.exc # "none"
                    THEN [s |-> l.s, exc |-> l.exc, calls |-> c1 \o l.calls]
                    ELSE [s |-> [l.s EXCEPT !.connected = TRUE], exc |-> "none",
                          calls |-> c1 \o l.calls]

\* variant: the except clause catches the transport's connect error only
connect_except_narrow(t) ==
    IF t.exc = "ConnectError"
    THEN Outcome([t.s EXCEPT !.connected = FALSE], "False", "none", t.exc, t.calls)
    ELSE Outcome(t.s, "None", t.exc, "none", t.calls)

\* connect, its except clause
connect_except(t) ==
    IF t.exc \in Exceptions
    THEN Outcome([t.s EXCEPT !.connected = FALSE], "False", "none", t.exc, t.calls)
    ELSE Outcome(t.s, "None", t.exc, "none", t.calls)

\* variant: no early return for a session that is already connected
connect_again(s, env) ==
    LET t == connect_try(s, env)
    IN IF t.exc = "none"
       THEN Outcome(t.s, "True", "none", "none", t.calls)
       ELSE connect_except(t)

connect(s, env) ==
    IF s.connected
    THEN Outcome(s, "True", "none", "none", <<>>)
    ELSE LET t == connect_try(s, env)
         IN IF t.exc = "none"
            THEN Outcome(t.s, "True", "none", "none", t.calls)
            ELSE connect_except(t)

\* variant: the registry is dropped, connected is left as it was
disconnect_stays_connected(s, denv) ==
    IF s.connected
    THEN LET s1 == IF denv = "ok" THEN [s EXCEPT !.link = FALSE] ELSE s
             caught == IF denv = "ok" THEN "none" ELSE "DisconnectError"
         IN Outcome([s1 EXCEPT !.chars = NoChars],
                    "None", "none", caught, <<"disconnect">>)
    ELSE Outcome(s, "None", "none", "none", <<>>)

disconnect(s, denv) ==
    IF s.connected
    THEN LET s1 == IF denv = "ok" THEN [s EXCEPT !.link = FALSE] ELSE s
             caught == IF denv = "ok" THEN "none" ELSE "DisconnectError"
         IN Outcome([s1 EXCEPT !.connected = FALSE, !.chars = NoChars],
                    "None", "none", caught, <<"disconnect">>)
    ELSE Outcome(s, "None", "none", "none", <<>>)

\* variant: a failed read leaves connected as it was
read_try_nodemote(s, sensor_type, renv, calls) ==
    IF sensor_type \notin DOMAIN s.chars.handles
    THEN Outcome(s, "None", "none", "AttributeError", calls)
    ELSE LET char == s.chars.handles[sensor_type]
             c1 == Append(calls, "read_" \o char.name)
         IN IF renv.read = "ok"
            THEN [s |-> s,
                  r |-> [NoResult EXCEPT !.ret = "Data", !.data = bytes_to_xyz(renv.payload),
                                         !.calls = c1, !.readHandle = char]]
            ELSE [s |-> [s EXCEPT !.link = IF renv.read = "lost" THEN FALSE ELSE @],
                  r |-> [NoResult EXCEPT !.caught = "ReadError", !.calls = c1,
                                         !.readHandle = char]]

\* variant: the accel characteristic is read whatever channel is asked for
read_try_accel(s, sensor_type, renv, calls) ==
    IF sensor_type \notin DOMAIN s.chars.handles
    THEN Outcome([s EXCEPT !.connected = FALSE], "None", "none", "AttributeError", calls)
    ELSE LET char == s.chars.handles["accel"]
             c1 == Append(calls, "read_" \o char.name)
         IN IF renv.read = "ok"
            THEN [s |-> s,
                  r |-> [NoResult EXCEPT !.ret = "Data", !.data = bytes_to_xyz(renv.payload),
                                         !.calls = c1, !.readHandle = char]]
            ELSE [s |-> [s EXCEPT !.connected = FALSE,
                                  !.link = IF renv.read = "lost" THEN FALSE ELSE @],
                  r |-> [NoResult EXCEPT !.caught = "ReadError", !.calls = c1,
                                         !.readHandle = char]]

\* read_imu_data, from its try block on
read_try(s, sensor_type, renv, calls) ==
    IF sensor_type \notin DOMAIN s.chars.handles
    THEN Outcome([s EXCEPT !.connected = FALSE], "None", "none", "AttributeError", calls)
    ELSE LET char == s.chars.handles[sensor_type]
             c1 == Append(calls, "read_" \o char.name)
         IN IF renv.read = "ok"
            THEN [s |-> s,
                  r |-> [NoResult EXCEPT !.ret = "Data", !.data = bytes_to_xyz(renv.payload),
                                         !.calls = c1, !.readHandle = char]]
            ELSE [s |-> [s EXCEPT !.connected = FALSE,
                                  !.link = IF renv.read = "lost" THEN FALSE ELSE @],
                  r |-> [NoResult EXCEPT !.caught = "ReadError", !.calls = c1,
                                         !.readHandle = char]]

\* variant: the read goes ahead although the implicit connect returned False
read_imu_data_unchecked(s, sensor_type, env, renv) ==
    IF ~s.connected \/ ~s.chars.present
    THEN LET c == connect(s, env)
         IN IF c.r.exc # "none" THEN c
            ELSE read_try(c.s, sensor_type, renv, c.r.calls)
    ELSE read_try(s, sensor_type, renv, <<>>)

read_imu_data(s, sensor_type, env, renv) ==
    IF ~s.connected \/ ~s.chars.present
    THEN LET c == connect(s, env)
         IN IF c.r.exc # "none" THEN c
            ELSE IF c.r.ret # "True"
            THEN [c EXCEPT !.r.ret = "None"]
            ELSE read_try(c.s, sensor_type, renv, c.r.calls)
    ELSE read_try(s, sensor_type, renv, <<>>)


\* connection(): try: self.connect(); yield self -- the block is entered
\* whatever connect() returned; an exception escaping connect() goes through
\* the finally clause at once
connection_enter(s, env, denv) ==
    LET c == connect(s, env)
    IN IF c.r.exc = "none"
       THEN [s |-> c.s, r |-> [c.r EXCEPT !.ret = "None"], entered |-> TRUE]
       ELSE LET d == disconnect(c.s, denv)
            IN [s |-> d.s,
                r |-> [c.r EXCEPT !.calls = @ \o d.r.calls, !.disconnects = 1],
                entered |-> FALSE]

\* connection(): finally: self.disconnect() -- how the block was left:
\* "normal" (ran to its end), "return" (left early), "raise" (a failure in it),
\* "interrupt" (KeyboardInterrupt or cancellation in it)
connection_exit(s, how, denv) ==
    LET d == disconnect(s, denv)
    IN [s |-> d.s,
        r |-> [d.r EXCEPT !.disconnects = 1,
                          !.exc = IF how = "raise" THEN "BodyError"
                                  ELSE IF how = "interrupt" THEN "KeyboardInterrupt"
                                  ELSE "none"]]

----------------------------------------------------------------------------
(* AsyncBLECentral: the coroutines run to completion, nothing else scheduled *)

\* connect_async, the body of its try block
connect_async_try(s, env) ==
    IF env.conn = "fail"
    THEN [s |-> s, exc |-> "ConnectError", calls |-> <<"connect">>]
    ELSE IF env.conn = "interrupt"
    THEN [s |-> [s EXCEPT !.link = TRUE, !.epoch = @ + 1], exc |-> "KeyboardInterrupt",
          calls |-> <<"connect", "sleep">>]
    ELSE LET s1 == [s EXCEPT !.link = TRUE, !.epoch = @ + 1]
             slept == wait_for_services(PollBudget, 0, env.delay)
             c1 == <<"connect">> \o [i \in 1..slept |-> "sleep"]
         IN IF ~(slept >= env.delay)
            THEN [s |-> s1, exc |-> "TimeoutError", calls |-> c1]
            ELSE LET l == load_characteristics(s1, env)
                 IN IF l.exc # "none"
                    THEN [s |-> l.s, exc |-> l.exc, calls |-> c1 \o l.calls]
                    ELSE [s |-> [l.s EXCEPT !.connected = TRUE], exc |-> "none",
                          calls |-> c1 \o l.calls]

\* connect_async, its except clause
connect_async_except(t) ==
    IF t.exc \in Exceptions
    THEN Outcome([t.s EXCEPT !.connected = FALSE], "False", "none", t.exc, t.calls)
    ELSE Outcome(t.s, "None", t.exc, "none", t.calls)

connect_async(s, env) ==
    IF s.connected
    THEN Outcome(s, "True", "none", "none", <<>>)
    ELSE LET t == connect_async_try(s, env)
         IN IF t.exc = "none"
            THEN Outcome(t.s, "True", "none", "none", t.calls)
            ELSE connect_async_except(t)

\* variant: the registry survives the disconnect
disconnect_async_keeps_registry(s, denv) ==
    IF s.connected
    THEN LET s1 == IF denv = "ok" THEN [s EXCEPT !.link = FALSE] ELSE s
             caught == IF denv = "ok" THEN "none" ELSE "DisconnectError"
         IN Outcome([s1 EXCEPT !.connected = FALSE],
                    "None", "none", caught, <<"disconnect">>)
    ELSE Outcome(s, "None", "none", "none", <<>>)

disconnect_async(s, denv) ==
    IF s.connected
    THEN LET s1 == IF denv = "ok" THEN [s EXCEPT !.link = FALSE] ELSE s
             caught == IF denv = "ok" THEN "none" ELSE "DisconnectError"
         IN Outcome([s1 EXCEPT !.connected = FALSE, !.chars = NoChars],
                    "None", "none", caught, <<"disconnect">>)
    ELSE Outcome(s, "None", "none", "none", <<>>)

\* read_imu_data_async, from its try block on
read_async_try(s, sensor_type, renv, calls) ==
    IF sensor_type \notin DOMAIN s.chars.handles
    THEN Outcome([s EXCEPT !.connected = FALSE], "None", "none", "AttributeError", calls)
    ELSE LET char == s.chars.handles[sensor_type]
             c1 == Append(calls, "read_" \o char.name)
         IN IF renv.read = "ok"
            THEN [s |-> s,
                  r |-> [NoResult EXCEPT !.ret = "Data", !.data = bytes_to_xyz(renv.payload),
                                         !.calls = c1, !.readHandle = char]]
            ELSE [s |-> [s EXCEPT !.connected = FALSE,
                                  !.link = IF renv.read = "lost" THEN FALSE ELSE @],
                  r |-> [NoResult EXCEPT !.caught = "ReadError", !.calls = c1,
                                         !.readHandle = char]]

read_imu_data_async(s, sensor_type, env, renv) ==
    IF ~s.connected \/ ~s.chars.present
    THEN LET c == connect_async(s, env)
         IN IF c.r.exc # "none" THEN c
            ELSE IF c.r.ret # "True"
            THEN [c EXCEPT !.r.ret = "None"]
            ELSE read_async_try(c.s, sensor_type, renv, c.r.calls)
    ELSE read_async_try(s, sensor_type, renv, <<>>)

\* AsyncBLECentral.connection(): try: await self.connect_async(); yield self
async_connection_enter(s, env, denv) ==
    LET c == connect_async(s, env)
    IN IF c.r.exc = "none"
       THEN [s |-> c.s, r |-> [c.r EXCEPT !.ret = "None"], entered |-> TRUE]
       ELSE LET d == disconnect_async(c.s, denv)
            IN [s |-> d.s,
                r |-> [c.r EXCEPT !.calls = @ \o d.r.calls, !.disconnects = 1],
                entered |-> FALSE]

\* AsyncBLECentral.connection(): finally: await self.disconnect_async()
async_connection_exit(s, how, denv) ==
    LET d == disconnect_async(s, denv)
    IN [s |-> d.s,
        r |-> [d.r EXCEPT !.disconnects = 1,
                          !.exc = IF how = "raise" THEN "BodyError"
                                  ELSE IF how = "interrupt" THEN "KeyboardInterrupt"
                                  ELSE "none"]]

----------------------------------------------------------------------------
(* Spec: one caller, both variants driven by the same calls and outcomes *)

\* the call may open a link only while the session has links left to open
MayConnect(s) == s.epoch < MaxEpoch
Ready(s) == s.connected /\ s.chars.present

\* a transport read was issued by the call and failed
ReadFailed(r) == r.caught = "ReadError"

\* afterFailedRead / aafterFailedRead: the call before this one was a read whose
\* transport read failed (on the BLECentral / on the AsyncBLECentral)
\* payload: the bytes char.read_value() had to hand back to a read;
\* afterFailedConnect: the call before was a connect, explicit or implicit, that
\* failed
NoCall == [op |-> "init", arg |-> "", pre |-> InitSession, apre |-> InitSession,
           how |-> "", afterFailedRead |-> FALSE, aafterFailedRead |-> FALSE,
           payload |-> NoData, afterFailedConnect |-> FALSE]

Called(op, arg, how) ==
    [op |-> op, arg |-> arg, pre |-> cen, apre |-> acen, how |-> how,
     afterFailedRead |-> call.op = "read" /\ ReadFailed(res),
     aafterFailedRead |-> call.op = "read" /\ ReadFailed(ares),
     payload |-> NoData,
     afterFailedConnect |-> /\ call.op \in {"connect", "read", "enter"}
                            /\ res.caught \in {"ConnectError", "TimeoutError",
                                               "RuntimeError", "ResolveError"}]

\* a task's frame: where it is suspended (pc), the call it is in (op, arg), the
\* poll counter of connect_async (retry) and the characteristic it reads (char)
IdleFrame == [pc |-> "idle", op |-> "", arg |-> "", retry |-> 0, char |-> NoHandle]
TasksIdle == [t \in 1..NumTasks |-> IdleFrame]
\* the shared session; resolved is the device's services_resolved
InitTaskSession ==
    [connected |-> FALSE, chars |-> NoChars, link |-> FALSE, epoch |-> 0,
     resolved |-> FALSE]

\* imu_version == 99: no IMU detected
NoIMU == 99
\* version codes IMUSensor.detectIMU() may return
IMUVersions == {1, 2, 3, NoIMU}

\* before IMUPeripheral(): no instance. variant: the class ("sync"
\* IMUPeripheral, "async" AsyncIMUPeripheral, "pull" the pull-refresh one);
\* imu: what the probes of the sensor found; managed: objects added to the GATT
\* application; discoverable, pairable: the adapter; registered: the
\* advertisement is registered with the advertising manager; loop: the main
\* loop of the application; pc: where the thread in start() is; err: what the
\* last start() raised; everRunning, served: start() has set running / entered
\* its serve loop; stopDone: a stop() has returned since start() was called;
\* attrs: accel_char, gyro_char and mag_char of the pull-refresh class refer to
\* the characteristics (FALSE: they are None); values: the value each
\* characteristic of the pull-refresh class holds; regs, unregs: the calls of
\* register_advertisement that returned and the calls of
\* unregister_advertisement since start() was called
NoPeripheral ==
    [variant |-> "sync", constructed |-> FALSE, imu |-> "none", managed |-> 0,
     running |-> FALSE, discoverable |-> FALSE, pairable |-> FALSE,
     registered |-> FALSE, loop |-> "idle", pc |-> "none", err |-> "none",
     everRunning |-> FALSE, served |-> FALSE, stopDone |-> FALSE,
     attrs |-> FALSE, values |-> [c \in Channels |-> NoData],
     regs |-> 0, unregs |-> 0]

\* the last step: its name, its input, the state it started in, the step
\* before it and the exception it raised to its caller; prevExc: what the step
\* before raised; sample: what the sensor held; data: the bytes handed back
NoPCall == [op |-> "init", arg |-> "", version |-> 0, pre |-> NoPeripheral,
            prev |-> "", exc |-> "none", prevExc |-> "none", sample |-> NoSample,
            data |-> NoData]

\* conn_handle = None, accel_handle = None
NoConn == -1

\* CentralDevice.__init__. scanning, connected, conn_handle, accel_handle: its
\* fields. The radio stack: radio (it is scanning), pending (gap_connect calls
\* it has not answered), link (the handle of its connection), discover (what
\* it was asked to discover), reading (a gattc_read it has not answered).
\* connects: gap_connect calls since the last gap_scan; ev, pre: the last
\* event or step and the fields it started from
InitFields == [scanning |-> FALSE, connected |-> FALSE, conn_handle |-> NoConn,
               accel_handle |-> NoConn]
InitDevice ==
    [f |-> InitFields, radio |-> FALSE, pending |-> 0, link |-> NoConn,
     discover |-> "none", reading |-> FALSE, connects |-> 0, ev |-> "init",
     pre |-> InitFields]

\* SpecCodec before any step. xyz, payload, packed: the triple given to the
\* encoder, the bytes in flight, and whether the step before produced them;
\* out, ret, exc, log: what the last decoder returned, raised and logged;
\* connected: the BLECentral that reads; sensor_data, last: the field of
\* IMUDataSenderBLE (NoData: None) and the readings it was packed from;
\* subscribed: start_notify has registered handle_notification
NoCodec ==
    [op |-> "init", xyz |-> <<0, 0, 0>>, payload |-> NoData,
     packed |-> FALSE, out |-> <<>>, ret |-> "", exc |-> "none", log |-> "none",
     connected |-> TRUE, sensor_data |-> NoData, last |-> NoSample.xyz,
     subscribed |-> FALSE]

\* no connect is waiting; resolved is the value of device.services_resolved
\* the code read last
NoPoll == [variant |-> "sync", pc |-> "idle", retry |-> 0, slept |-> 0,
           resolved |-> FALSE]

Init ==
    /\ cen = InitSession
    /\ acen = InitSession
    /\ res = NoResult
    /\ ares = NoResult
    /\ call = NoCall
    /\ scope = "out"
    /\ tsess = InitTaskSession
    /\ task = TasksIdle
    /\ poll = NoPoll
    /\ per = NoPeripheral
    /\ pcall = NoPCall
    /\ codec = NoCodec
    /\ dev = InitDevice

\* the connect outcomes a call can meet: none when both sessions are connected
\* (connect returns at once) or, for a read, ready
EnvsFor(idle) == IF idle THEN {IdleEnv} ELSE ConnectEnv

Connect ==
    \E env \in EnvsFor(cen.connected /\ acen.connected) :
        /\ cen.connected \/ MayConnect(cen)
        /\ acen.connected \/ MayConnect(acen)
        /\ \E c \in {connect(cen, env)},
              a \in {connect_async(acen, env)} :
              /\ cen' = c.s /\ res' = c.r
              /\ acen' = a.s /\ ares' = a.r
        /\ call' = Called("connect", "", "")
        /\ UNCHANGED <<scope, tsess, task, poll, per, pcall, codec, dev>>

Disconnect ==
    \E denv \in DiscEnv :
        /\ \E c \in {disconnect(cen, denv)},
              a \in {disconnect_async(acen, denv)} :
              /\ cen' = c.s /\ res' = c.r
              /\ acen' = a.s /\ ares' = a.r
        /\ call' = Called("disconnect", "", "")
        /\ UNCHANGED <<scope, tsess, task, poll, per, pcall, codec, dev>>

Read ==
    \E sensor_type \in SensorTypes, env \in EnvsFor(Ready(cen) /\ Ready(acen)),
       renv \in ReadEnv :
        \* there is a read outcome only where there is a characteristic to read
        /\ ComesUp(env) \/ renv = IdleRead
        /\ Ready(cen) \/ MayConnect(cen)
        /\ Ready(acen) \/ MayConnect(acen)
        /\ \E c \in {read_imu_data(cen, sensor_type, env, renv)},
              a \in {read_imu_data_async(acen, sensor_type, env, renv)} :
              /\ cen' = c.s /\ res' = c.r
              /\ acen' = a.s /\ ares' = a.r
        /\ call' = [Called("read", sensor_type, "") EXCEPT !.payload = renv.payload]
        /\ UNCHANGED <<scope, tsess, task, poll, per, pcall, codec, dev>>

EnterConnection ==
    \E env \in EnvsFor(cen.connected /\ acen.connected), denv \in DiscEnv :
        /\ scope = "out"
        /\ cen.connected \/ MayConnect(cen)
        /\ acen.connected \/ MayConnect(acen)
        /\ \E c \in {connection_enter(cen, env, denv)},
              a \in {async_connection_enter(acen, env, denv)} :
              /\ cen' = c.s /\ res' = c.r
              /\ acen' = a.s /\ ares' = a.r
              /\ scope' = IF c.entered THEN "in" ELSE "out"
        /\ call' = Called("enter", "", "")
        /\ UNCHANGED <<tsess, task, poll, per, pcall, codec, dev>>

ExitConnection ==
    \E how \in {"normal", "return", "raise", "interrupt"}, denv \in DiscEnv :
        /\ scope = "in"
        /\ \E c \in {connection_exit(cen, how, denv)},
              a \in {async_connection_exit(acen, how, denv)} :
              /\ cen' = c.s /\ res' = c.r
              /\ acen' = a.s /\ ares' = a.r
        /\ scope' = "out"
        /\ call' = Called("exit", "", how)
        /\ UNCHANGED <<tsess, task, poll, per, pcall, codec, dev>>

\* connection() is entered and the caller is interrupted while connect() waits
\* for service discovery: the interrupt passes `except Exception` and runs the
\* finally clause
InterruptedEnter ==
    \E denv \in DiscEnv :
        /\ scope = "out"
        /\ ~cen.connected /\ ~acen.connected
        /\ MayConnect(cen) /\ MayConnect(acen)
        /\ \E c \in {connection_enter(cen, InterruptEnv, denv)},
              a \in {async_connection_enter(acen, InterruptEnv, denv)} :
              /\ cen' = c.s /\ res' = c.r
              /\ acen' = a.s /\ ares' = a.r
              /\ scope' = IF c.entered THEN "in" ELSE "out"
        /\ call' = Called("enter", "", "interrupt")
        /\ UNCHANGED <<tsess, task, poll, per, pcall, codec, dev>>

Next ==
    \/ Connect \/ Disconnect \/ Read
    \/ EnterConnection \/ ExitConnection \/ InterruptedEnter

Spec == Init /\ [][Next]_vars

----------------------------------------------------------------------------
(* SpecTasks: asyncio tasks on one AsyncBLECentral. A task runs from one await
   to the next in one step; the awaited transport call or sleep completes in a
   later step, and other tasks run in between. *)

\* outcomes of _load_characteristics
LoadEnv == {e \in ConnectEnv : e.conn = "ok" /\ e.delay = 0}

\* read_imu_data_async from its try block to the await of char.read_value
read_issue(s, f) ==
    IF f.arg \notin DOMAIN s.chars.handles
    THEN [s |-> [s EXCEPT !.connected = FALSE], f |-> IdleFrame]
    ELSE [s |-> s, f |-> [f EXCEPT !.pc = "await_read", !.char = s.chars.handles[f.arg]]]

\* connect_async has returned ok to the coroutine that awaited it
after_connect(s, f, ok) ==
    IF f.op = "read" /\ ok
    THEN read_issue(s, f)
    ELSE [s |-> s, f |-> IdleFrame]

\* connect_async from the end of its polling loop on
finish_poll(s, f, lenv) ==
    IF ~s.resolved
    THEN after_connect([s EXCEPT !.connected = FALSE], f, FALSE)
    ELSE IF load_characteristics(s, lenv).exc # "none"
    THEN after_connect([load_characteristics(s, lenv).s EXCEPT !.connected = FALSE], f, FALSE)
    ELSE after_connect([load_characteristics(s, lenv).s EXCEPT !.connected = TRUE], f, TRUE)

\* connect_async, one test of its polling loop
poll_loop(s, f, lenv) ==
    IF ~s.resolved /\ f.retry > 0
    THEN [s |-> s, f |-> [f EXCEPT !.pc = "sleep", !.retry = @ - 1]]
    ELSE finish_poll(s, f, lenv)

\* connect_async up to the await of device.connect
start_connect(s, f) ==
    IF s.connected
    THEN after_connect(s, f, TRUE)
    ELSE [s |-> s, f |-> [f EXCEPT !.pc = "await_connect"]]

InFlightConnects == Cardinality({t \in 1..NumTasks : task[t].pc = "await_connect"})
Step(t, n) == /\ tsess' = n.s
              /\ task' = [task EXCEPT ![t] = n.f]
              /\ UNCHANGED <<cen, acen, res, ares, call, scope, poll, per, pcall, codec, dev>>

TaskConnect(t) ==
    /\ task[t].pc = "idle"
    /\ tsess.connected \/ tsess.epoch + InFlightConnects < MaxEpoch
    /\ Step(t, start_connect(tsess, [IdleFrame EXCEPT !.op = "connect"]))

TaskRead(t) ==
    \E sensor_type \in SensorTypes :
        /\ task[t].pc = "idle"
        /\ Ready(tsess) \/ tsess.epoch + InFlightConnects < MaxEpoch
        /\ Step(t, IF ~tsess.connected \/ ~tsess.chars.present
                   THEN start_connect(tsess, [IdleFrame EXCEPT !.op = "read",
                                                               !.arg = sensor_type])
                   ELSE read_issue(tsess, [IdleFrame EXCEPT !.op = "read",
                                                            !.arg = sensor_type]))

TaskDisconnect(t) ==
    /\ task[t].pc = "idle"
    /\ Step(t, IF tsess.connected
               THEN [s |-> tsess, f |-> [IdleFrame EXCEPT !.pc = "await_disconnect",
                                                          !.op = "disconnect"]]
               ELSE [s |-> tsess, f |-> IdleFrame])

\* device.connect returns to connect_async
ConnectDone(t) ==
    \E conn \in {"ok", "fail"}, now \in BOOLEAN, lenv \in LoadEnv :
        /\ task[t].pc = "await_connect"
        /\ conn = "fail" => ~now /\ lenv = IdleEnv
        /\ Step(t, IF conn = "fail"
                   THEN after_connect([tsess EXCEPT !.connected = FALSE], task[t], FALSE)
                   ELSE poll_loop([tsess EXCEPT !.link = TRUE, !.epoch = @ + 1,
                                                !.resolved = @ \/ now],
                                  [task[t] EXCEPT !.retry = PollBudget], lenv))

\* asyncio.sleep(0.5) returns to the polling loop of connect_async
Wake(t) ==
    \E lenv \in LoadEnv :
        /\ task[t].pc = "sleep"
        /\ Step(t, poll_loop(tsess, task[t], lenv))

\* device.disconnect returns to disconnect_async
DisconnectDone(t) ==
    \E denv \in DiscEnv :
        /\ task[t].pc = "await_disconnect"
        /\ Step(t, [s |-> [tsess EXCEPT !.link = IF denv = "ok" THEN FALSE ELSE @,
                                        !.resolved = IF denv = "ok" THEN FALSE ELSE @,
                                        !.connected = FALSE, !.chars = NoChars],
                    f |-> IdleFrame])

\* char.read_value returns to read_imu_data_async
ReadDone(t) ==
    \E read \in {"ok", "error", "lost"} :
        /\ task[t].pc = "await_read"
        /\ Step(t, IF read = "ok"
                   THEN [s |-> tsess, f |-> IdleFrame]
                   ELSE [s |-> [tsess EXCEPT !.connected = FALSE,
                                             !.link = IF read = "lost" THEN FALSE ELSE @,
                                             !.resolved = IF read = "lost" THEN FALSE ELSE @],
                         f |-> IdleFrame])

\* the peer's services finish resolving on the open link
ServicesResolved ==
    /\ tsess.link /\ ~tsess.resolved
    /\ tsess' = [tsess EXCEPT !.resolved = TRUE]
    /\ UNCHANGED <<task, cen, acen, res, ares, call, scope, poll, per, pcall, codec, dev>>

NextTasks ==
    \/ \E t \in 1..NumTasks : TaskConnect(t)
    \/ \E t \in 1..NumTasks : TaskRead(t)
    \/ \E t \in 1..NumTasks : TaskDisconnect(t)
    \/ \E t \in 1..NumTasks : ConnectDone(t)
    \/ \E t \in 1..NumTasks : Wake(t)
    \/ \E t \in 1..NumTasks : DisconnectDone(t)
    \/ \E t \in 1..NumTasks : ReadDone(t)
    \/ ServicesResolved

SpecTasks == Init /\ [][NextTasks]_vars

----------------------------------------------------------------------------
(* SpecPoll: the wait for service discovery in connect (variant "sync",
   time.sleep) and in connect_async (variant "async", asyncio.sleep). The
   device sets and clears services_resolved as it likes: every read of the flag
   may find either value. *)

\* variant: the loop goes round once more after the budget is used up
poll_test_once_more(p, resolved) ==
    IF ~resolved /\ p.retry >= 0
    THEN [p EXCEPT !.retry = @ - 1, !.slept = @ + 1, !.resolved = resolved]
    ELSE [p EXCEPT !.pc = "check", !.resolved = resolved]

\* while not self.device.services_resolved and retry > 0: retry -= 1; sleep(0.5)
\* -- one test of the loop condition and, if it holds, one pass of the body
poll_test(p, resolved) ==
    IF ~resolved /\ p.retry > 0
    THEN [p EXCEPT !.retry = @ - 1, !.slept = @ + 1, !.resolved = resolved]
    ELSE [p EXCEPT !.pc = "check", !.resolved = resolved]

\* if not self.device.services_resolved: raise TimeoutError(...)
\* else the code goes on to self._load_characteristics()
poll_check(p, resolved) ==
    [p EXCEPT !.pc = IF ~resolved THEN "timeout" ELSE "load", !.resolved = resolved]

PollVars == <<cen, acen, res, ares, call, scope, tsess, task, per, pcall, codec, dev>>

\* device.connect() has returned: retry = 30
PollStart ==
    \E variant \in {"sync", "async"} :
        /\ poll.pc \in {"idle", "load", "timeout"}
        /\ poll' = [variant |-> variant, pc |-> "test", retry |-> PollBudget,
                    slept |-> 0, resolved |-> FALSE]
        /\ UNCHANGED PollVars

PollTest ==
    \E resolved \in BOOLEAN :
        /\ poll.pc = "test"
        /\ poll' = poll_test(poll, resolved)
        /\ UNCHANGED PollVars

PollCheck ==
    \E resolved \in BOOLEAN :
        /\ poll.pc = "check"
        /\ poll' = poll_check(poll, resolved)
        /\ UNCHANGED PollVars

NextPoll == PollStart \/ PollTest \/ PollCheck

\* the thread (the event loop) that runs connect keeps running it
SpecPoll == Init /\ [][NextPoll]_vars /\ WF_vars(PollTest \/ PollCheck)

----------------------------------------------------------------------------
(* SpecPeripheral: IMUPeripheral / AsyncIMUPeripheral (src/src/peripheral.py)
   and the pull-refresh IMUPeripheral (src/BerryIMU/central.py). The thread in
   start() runs from one statement that another thread can observe to the
   next; stop() runs in another thread (a signal handler, the executor of
   stop_async) between any two of them. *)

\* register_advertisement returns or raises
RegisterEnv == {"ok", "raise"}
\* unregister_advertisement of an advertisement that is not registered returns
\* or raises (the radio stack does not know the advertisement)
UnregisterEnv == {"ok", "raise"}

\* _ensure_adapter_config
ensure_adapter_config(p) == [p EXCEPT !.discoverable = TRUE, !.pairable = TRUE]

\* what detectIMU() and initIMU() found
ProbedIMU(version, initok) ==
    IF version = NoIMU THEN "absent" ELSE IF ~initok THEN "initfail" ELSE "ok"

\* variant: the version code of the probe is not looked at
init_imu_any_version(version, initok) ==
    IF ~initok THEN "RuntimeError" ELSE "none"

\* _init_imu: the exception it raises
init_imu(version, initok) ==
    IF version = NoIMU THEN "RuntimeError"
    ELSE IF ~initok THEN "RuntimeError"
    ELSE "none"

\* _setup_gatt_server: the service and one characteristic per channel
setup_gatt_server(p) == [p EXCEPT !.managed = 1 + Len(ChannelNames)]

\* IMUPeripheral.__init__: an exception leaves no instance
peripheral_init(p, variant, version, initok) ==
    LET p1 == ensure_adapter_config([p EXCEPT !.variant = variant, !.running = FALSE,
                                              !.imu = ProbedIMU(version, initok)])
        exc == init_imu(version, initok)
    IN IF exc # "none"
       THEN [p |-> p1, exc |-> exc]
       ELSE [p |-> [setup_gatt_server(p1) EXCEPT !.constructed = TRUE, !.pc = "idle"],
             exc |-> "none"]

\* the pull-refresh _setup_imu_service: the service and three characteristics
\* of six zero bytes, kept in accel_char, gyro_char and mag_char
setup_imu_service(p) ==
    [p EXCEPT !.managed = 1 + Len(ChannelNames), !.attrs = TRUE,
              !.values = [c \in Channels |-> <<0, 0, 0, 0, 0, 0>>]]

\* the pull-refresh IMUPeripheral.__init__: the result of initIMU() is dropped;
\* after _setup_imu_service, accel_char = gyro_char = mag_char = None
pull_init(p, version, initok) ==
    LET p1 == [p EXCEPT !.variant = "pull", !.imu = ProbedIMU(version, initok)]
    IN IF version = NoIMU
       THEN [p |-> p1, exc |-> "RuntimeError"]
       ELSE [p |-> [setup_imu_service(p1) EXCEPT !.attrs = FALSE, !.running = FALSE,
                                                 !.constructed = TRUE, !.pc = "idle"],
             exc |-> "none"]

register_advertisement(p, renv) ==
    IF renv = "ok"
    THEN [p |-> [p EXCEPT !.registered = TRUE, !.regs = @ + 1], exc |-> "none"]
    ELSE [p |-> p, exc |-> "RegisterError"]

unregister_advertisement(p, uenv) ==
    IF p.registered
    THEN [p |-> [p EXCEPT !.registered = FALSE, !.unregs = @ + 1], exc |-> "none"]
    ELSE [p |-> [p EXCEPT !.unregs = @ + 1],
          exc |-> IF uenv = "raise" THEN "UnregisterError" ELSE "none"]

\* advertising(): finally: unregister_advertisement -- exc is the exception on
\* its way out of the block; one raised by the finally clause replaces it
advertising_exit(p, exc, uenv) ==
    LET u == unregister_advertisement(p, uenv)
    IN [p |-> u.p, exc |-> IF u.exc # "none" THEN u.exc ELSE exc]

\* start / start_async: the return, or except Exception: running = False; raise
start_exit(p, exc) ==
    IF exc = "none"
    THEN [p EXCEPT !.pc = "returned"]
    ELSE [p EXCEPT !.running = FALSE, !.pc = "failed", !.err = exc]

\* start / start_async: self._ensure_adapter_config()
start_config(p) ==
    [ensure_adapter_config(p) EXCEPT !.pc = "configured", !.err = "none",
                                     !.everRunning = FALSE, !.served = FALSE,
                                     !.stopDone = FALSE, !.regs = 0, !.unregs = 0]

\* start / start_async: with self.advertising(), up to its yield
start_register(p, renv, uenv) ==
    LET r == register_advertisement(p, renv)
    IN IF r.exc = "none"
       THEN [r.p EXCEPT !.pc = "advertising"]
       ELSE LET a == advertising_exit(r.p, r.exc, uenv)
            IN start_exit(a.p, a.exc)

\* variant: running is left as it was
start_set_running_skipped(p) ==
    [p EXCEPT !.everRunning = TRUE, !.pc = "running_set"]

\* start / start_async: self.running = True
start_set_running(p) ==
    [p EXCEPT !.running = TRUE, !.everRunning = TRUE, !.pc = "running_set"]

\* start: self.app.run() starts the main loop and blocks in it
start_run(p) == [p EXCEPT !.loop = "running", !.served = TRUE, !.pc = "serving"]

\* start: self.app.run() returns (exc = "none") or raises
start_run_ends(p, exc, uenv) ==
    LET a == advertising_exit([p EXCEPT !.loop = "idle"], exc, uenv)
    IN start_exit(a.p, a.exc)

\* start_async: while self.running: await asyncio.sleep(self.update_interval)
start_async_loop(p, uenv) ==
    IF p.running
    THEN [p EXCEPT !.served = TRUE, !.pc = "serving"]
    ELSE LET a == advertising_exit(p, "none", uenv)
         IN start_exit(a.p, a.exc)

\* variant: stop() also unregisters the advertisement and passes on its error
stop_unregisters(p) ==
    [p |-> [p EXCEPT !.running = FALSE, !.registered = FALSE,
                     !.loop = IF @ = "running" THEN "quit" ELSE @,
                     !.discoverable = FALSE, !.stopDone = TRUE],
     exc |-> IF p.registered THEN "none" ELSE "UnregisterError"]

\* stop: running = False; app.quit() ends a main loop that is running and is
\* lost on one that is not; adapter.discoverable = False
stop(p) ==
    [p |-> [p EXCEPT !.running = FALSE,
                     !.loop = IF @ = "running" THEN "quit" ELSE @,
                     !.discoverable = FALSE, !.stopDone = TRUE],
     exc |-> "none"]

\* the pull-refresh stop: running = False; app.stop() on a main loop that was
\* never started
pull_stop(p) == [p |-> [p EXCEPT !.running = FALSE, !.stopDone = TRUE], exc |-> "none"]

\* the pull-refresh start, up to its loop
pull_start(p) ==
    [p EXCEPT !.running = TRUE, !.everRunning = TRUE, !.pc = "running_set",
              !.err = "none", !.served = FALSE, !.stopDone = FALSE]

\* update_sensor_values, the channels from the i-th on: read the sensor, pack,
\* set_value; the first exception ends the pass (except Exception: log)
RECURSIVE update_from(_, _, _)
update_from(p, sample, i) ==
    IF i > Len(ChannelNames) THEN p
    ELSE LET c == ChannelNames[i]
             packed == pack_hhh(sample.xyz[c])
         IN IF sample.failAt = c \/ packed.exc # "none" \/ ~p.attrs
            THEN p
            ELSE update_from([p EXCEPT !.values[c] = packed.data], sample, i + 1)

update_sensor_values(p, sample) == update_from(p, sample, 1)

\* the pull-refresh start: while self.running: update; sleep -- finally: stop()
pull_loop(p, sample) ==
    IF p.running
    THEN [update_sensor_values(p, sample) EXCEPT !.served = TRUE, !.pc = "serving"]
    ELSE [pull_stop(p).p EXCEPT !.pc = "returned"]

\* variant: a sensor failure in a read callback reaches start()
read_callback_fatal(p, channel, sample) ==
    IF sample.failAt = channel
    THEN [p |-> [p EXCEPT !.running = FALSE], exc |-> "SensorError", data |-> NoData]
    ELSE LET packed == pack_hhh(sample.xyz[channel])
         IN [p |-> p, exc |-> packed.exc, data |-> packed.data]

\* _read_accelerometer, _read_gyroscope, _read_magnetometer: an exception of
\* the sensor or of struct.pack leaves the callback
read_callback(p, channel, sample) ==
    IF sample.failAt = channel
    THEN [p |-> p, exc |-> "SensorError", data |-> NoData]
    ELSE LET packed == pack_hhh(sample.xyz[channel])
         IN [p |-> p, exc |-> packed.exc, data |-> packed.data]

CentralVars == <<cen, acen, res, ares, call, scope, tsess, task, poll, codec, dev>>

PStepIO(op, arg, version, p, exc, sample, data) ==
    /\ per' = p
    /\ pcall' = [op |-> op, arg |-> arg, version |-> version, pre |-> per,
                 prev |-> pcall.op, exc |-> exc, prevExc |-> pcall.exc,
                 sample |-> sample, data |-> data]
    /\ UNCHANGED CentralVars

PStep(op, arg, version, p, exc) == PStepIO(op, arg, version, p, exc, NoSample, NoData)

Construct ==
    \E variant \in {"sync", "async"}, version \in IMUVersions, initok \in BOOLEAN :
        /\ ~per.constructed
        /\ \E c \in {peripheral_init(per, variant, version, initok)} :
              PStep("construct", IF initok THEN "initok" ELSE "initfail", version,
                    c.p, c.exc)

PullConstruct ==
    \E version \in IMUVersions, initok \in BOOLEAN :
        /\ ~per.constructed
        /\ \E c \in {pull_init(per, version, initok)} :
              PStep("construct", IF initok THEN "initok" ELSE "initfail", version,
                    c.p, c.exc)

Restartable == per.constructed /\ per.pc \in {"idle", "returned", "failed"}

Start ==
    /\ Restartable /\ per.variant # "pull"
    /\ PStep("start", "", 0, start_config(per), "none")

Register ==
    \E renv \in RegisterEnv, uenv \in UnregisterEnv :
        /\ per.pc = "configured"
        /\ renv = "ok" => uenv = "ok"
        /\ \E p \in {start_register(per, renv, uenv)} :
              PStep("register", renv, 0, p, p.err)

SetRunning ==
    /\ per.pc = "advertising"
    /\ PStep("set_running", "", 0, start_set_running(per), "none")

Run ==
    /\ per.variant = "sync" /\ per.pc = "running_set"
    /\ PStep("run", "", 0, start_run(per), "none")

\* app.run() returns: the main loop was told to quit, or it ended by itself
\* (the stubbed application of tests/test_ble.py returns at once)
RunReturns ==
    /\ per.variant = "sync" /\ per.pc = "serving"
    /\ \E p \in {start_run_ends(per, "none", "ok")} :
          PStep("run_returns", "", 0, p, p.err)

\* app.run() raises
RunRaises ==
    /\ per.variant = "sync" /\ per.pc = "serving"
    /\ \E p \in {start_run_ends(per, "RunError", "ok")} :
          PStep("run_raises", "", 0, p, p.err)

\* start_async tests its loop condition: after running = True and at each wake
\* (arg tells a pass of the loop from the pass before it)
AsyncLoop ==
    /\ per.variant = "async" /\ per.pc \in {"running_set", "serving"}
    /\ \E p \in {start_async_loop(per, "ok")} :
          PStep("loop", IF pcall.op = "loop" /\ pcall.arg = "odd" THEN "even" ELSE "odd",
                0, p, p.err)

Stop ==
    /\ per.constructed /\ per.variant # "pull"
    /\ \E c \in {stop(per)} : PStep("stop", "", 0, c.p, c.exc)

PullStart ==
    /\ Restartable /\ per.variant = "pull"
    /\ PStep("start", "", 0, pull_start(per), "none")

PullLoop ==
    \E sample \in Samples :
        /\ per.variant = "pull" /\ per.pc \in {"running_set", "serving"}
        /\ ~per.running => sample = [failAt |-> "none", xyz |-> InRange]
        /\ PStepIO("loop", "", 0, pull_loop(per, sample), "none", sample, NoData)

\* the main loop serves a read of one characteristic: its read callback runs;
\* what the callback raises goes back to the requester as a failed read
ReadCallback ==
    \E channel \in Channels, sample \in Samples :
        /\ per.variant = "sync" /\ per.pc = "serving" /\ per.loop = "running"
        /\ sample.failAt \in {"none", channel}
        /\ \E c \in {read_callback(per, channel, sample)} :
              PStepIO("read", channel, 0, c.p, c.exc, sample, c.data)

PullStop ==
    /\ per.constructed /\ per.variant = "pull"
    /\ \E c \in {pull_stop(per)} : PStep("stop", "", 0, c.p, c.exc)

NextPeripheral ==
    \/ Construct \/ PullConstruct
    \/ Start \/ Register \/ SetRunning \/ Run \/ RunReturns \/ RunRaises \/ AsyncLoop
    \/ Stop \/ ReadCallback
    \/ PullStart \/ PullLoop \/ PullStop

SpecPeripheral == Init /\ [][NextPeripheral]_vars

\* the thread (or the event loop) that runs start() / start_async() goes on
\* from each statement to the next; nothing makes anyone call stop()
StartProceeds == Register \/ SetRunning \/ Run \/ AsyncLoop

SpecPeripheralFair == Init /\ [][NextPeripheral]_vars /\ WF_vars(StartProceeds)

----------------------------------------------------------------------------
(* SpecCodec: the frames. The read callbacks of src/src/peripheral.py pack a
   triple; BLECentral.read_imu_data (src/src/central.py) and the read-result
   event of CentralDevice (src/micropy_central/micro_central.py) decode a
   payload; IMUDataSenderBLE (imu_data_sender.py) packs and serves the
   composite frame and IMUDataReceiverBLE.handle_notification
   (imu_data_receiver.py) unpacks it. *)

\* values a reading takes: the ends of the 16-bit range and values between
Readings == {-32768, -1, 0, 300, 32767}
\* what the encoder is given: triples of readings, and readings beyond 16 bits
Triples == (Readings \X Readings \X Readings) \cup {<<32768, 0, 0>>, <<0, -32769, 0>>}

\* payloads a characteristic may hold that no read callback packed
OtherPayloads ==
    { <<>>, <<1>>, <<100, 0, 56, 255, 44>>, <<100, 0, 56, 255, 44, 128>>,
      <<100, 0, 56, 255, 44, 1, 9>>, <<255, 255, 255, 255, 255, 255>> }

\* b"No data"
NoDataReply == <<78, 111, 32, 100, 97, 116, 97>>

\* notification payloads that no sender packed
OtherFrames ==
    { <<>>, NoDataReply, SubSeq(pack_9f(InRange), 1, 35), pack_9f(InRange) \o <<0>>,
      pack_9f(OutOfRange) }

\* a BLECentral after a connect that resolved every characteristic
CodecSession == connect(InitSession, IdleEnv).s

\* struct implementations the event handler of CentralDevice may run on
Platforms == {"cpython", "micropython"}

\* _irq_handler, event 9 with data = (conn_handle, value_handle, value)
irq_read_result(value, platform) ==
    LET u == IF platform = "micropython" THEN unpack_hhh_micropython(value)
             ELSE unpack_hhh(value)
    IN IF u.exc = "none" THEN [exc |-> "none", log |-> "xyz", out |-> u.xyz]
       ELSE IF u.exc = "StructError" THEN [exc |-> "none", log |-> "invalid", out |-> <<>>]
       ELSE [exc |-> u.exc, log |-> "none", out |-> <<>>]

\* collect_sensor_data: the readings, or None when a read of the sensor raises
collect_sensor_data(sample) == [truthy |-> sample.failAt = "none", xyz |-> sample.xyz]

\* imu_update_callback, one pass of its loop
imu_update_callback(c, sample) ==
    LET sensor_data == collect_sensor_data(sample)
    IN IF sensor_data.truthy
       THEN [c EXCEPT !.sensor_data = pack_9f(sensor_data.xyz), !.last = sensor_data.xyz]
       ELSE c

\* IMUDataSenderBLE.read_imu_data
sender_read_imu_data(c) == IF c.sensor_data # NoData THEN c.sensor_data ELSE NoDataReply

\* variant: struct.error leaves the handler
handle_notification_unguarded(data) ==
    LET u == unpack_9f(data)
    IN IF u.exc = "none"
       THEN [exc |-> "none", log |-> "frame", out |-> u.values]
       ELSE [exc |-> u.exc, log |-> "none", out |-> <<>>]

\* IMUDataReceiverBLE.handle_notification
handle_notification(data) ==
    LET u == unpack_9f(data)
    IN IF u.exc = "none"
       THEN [exc |-> "none", log |-> "frame", out |-> u.values]
       ELSE [exc |-> "none", log |-> "error", out |-> <<>>]

CodecOthers == <<cen, acen, res, ares, call, scope, tsess, task, poll, per, pcall, dev>>

CStep(op, c) ==
    /\ codec' = [c EXCEPT !.op = op]
    /\ UNCHANGED CodecOthers

\* the bytes the step before packed or served
InFlight(op) == IF codec.op = op /\ codec.exc = "none" THEN {codec.payload} ELSE {}

\* a read callback of the peripheral packs a triple
Pack ==
    \E xyz \in Triples :
        \E k \in {pack_hhh(xyz)} :
            CStep("pack", [codec EXCEPT !.xyz = xyz, !.payload = k.data, !.exc = k.exc,
                                        !.packed = FALSE, !.out = <<>>, !.ret = "",
                                        !.log = "none"])

\* BLECentral.read_imu_data on a connected session: char.read_value() hands back
\* the bytes a read callback packed, or other bytes
CentralRead ==
    \E channel \in Channels, payload \in InFlight("pack") \cup OtherPayloads :
        \E c \in {read_imu_data(CodecSession, channel, IdleEnv,
                                [read |-> "ok", payload |-> payload])} :
            CStep("central_read",
                  [codec EXCEPT !.payload = payload,
                                !.packed = payload \in InFlight("pack"),
                                !.xyz = IF payload \in InFlight("pack") THEN @
                                        ELSE NoCodec.xyz,
                                !.out = c.r.data, !.ret = c.r.ret,
                                !.exc = c.r.exc,
                                !.log = IF c.r.caught = "none" THEN "none" ELSE "error",
                                !.connected = c.s.connected])

\* CentralDevice._irq_handler gets the result of a read
MicroRead ==
    \E platform \in Platforms, payload \in InFlight("pack") \cup OtherPayloads :
        \E c \in {irq_read_result(payload, platform)} :
            CStep("micro_read",
                  [codec EXCEPT !.payload = payload,
                                !.packed = payload \in InFlight("pack"),
                                !.xyz = IF payload \in InFlight("pack") THEN @
                                        ELSE NoCodec.xyz,
                                !.out = c.out, !.ret = platform, !.exc = c.exc,
                                !.log = c.log])

\* one pass of the loop of imu_update_callback
SenderTick ==
    \E sample \in Samples :
        CStep("tick", [imu_update_callback(codec, sample) EXCEPT
                          !.payload = NoData, !.packed = FALSE, !.out = <<>>,
                          !.ret = "", !.exc = "none", !.log = "none",
                          !.xyz = NoCodec.xyz])

\* the radio stack reads the characteristic of the sender
SenderServe ==
    CStep("serve", [codec EXCEPT !.payload = sender_read_imu_data(codec),
                                 !.packed = FALSE, !.out = <<>>, !.ret = "",
                                 !.exc = "none", !.log = "none", !.xyz = NoCodec.xyz])

\* start_receiver: connect and start_notify
Subscribe ==
    /\ ~codec.subscribed
    /\ CStep("subscribe", [codec EXCEPT !.subscribed = TRUE, !.payload = NoData,
                                        !.packed = FALSE, !.out = <<>>, !.ret = "",
                                        !.exc = "none", !.log = "none",
                                        !.xyz = NoCodec.xyz])

\* a notification arrives: what the sender served, or other bytes
Notify ==
    \E data \in InFlight("serve") \cup OtherFrames :
        /\ codec.subscribed
        /\ \E c \in {handle_notification(data)} :
              CStep("notify", [codec EXCEPT !.payload = data,
                                           !.packed = data \in InFlight("serve"),
                                           !.out = c.out, !.ret = "", !.exc = c.exc,
                                           !.log = c.log, !.xyz = NoCodec.xyz])

NextCodec ==
    \/ Pack \/ CentralRead \/ MicroRead
    \/ SenderTick \/ SenderServe \/ Subscribe \/ Notify

SpecCodec == Init /\ [][NextCodec]_vars

----------------------------------------------------------------------------
(* SpecMicro: CentralDevice (src/micropy_central/micro_central.py). The radio
   stack calls _irq_handler with one event at a time, between two steps of
   the loop of run(); it reports what it was asked for: scan results while it
   scans, a connection after a gap_connect, discovery results on a link. *)

PERIPHERAL_NAME == "IMU_Sensor"
\* names _decode_name may find in an advertisement
AdvertisedNames == {PERIPHERAL_NAME, "Other", "None"}
\* connection handles and value handles the stack hands out
ConnHandles == {0, 1}
ValueHandles == {3}

\* event 5, _IRQ_SCAN_RESULT
irq_scan_result(d, name) ==
    IF name = PERIPHERAL_NAME
    THEN [d EXCEPT !.pending = @ + 1, !.connects = @ + 1, !.f.scanning = FALSE]
    ELSE d

\* event 6, _IRQ_SCAN_DONE
irq_scan_done(d) == [d EXCEPT !.f.scanning = FALSE]

\* event 3, _IRQ_PERIPHERAL_CONNECT
irq_connect(d, conn_handle) ==
    [d EXCEPT !.f.conn_handle = conn_handle, !.f.connected = TRUE,
              !.discover = "services"]

\* event 8, _IRQ_GATTC_SERVICE_RESULT
irq_service_result(d, match) ==
    IF match THEN [d EXCEPT !.discover = "characteristics"] ELSE d

\* event 7, _IRQ_GATTC_CHARACTERISTIC_RESULT
irq_characteristic_result(d, match, value_handle) ==
    IF match THEN [d EXCEPT !.f.accel_handle = value_handle] ELSE d

\* event 4, _IRQ_PERIPHERAL_DISCONNECT
irq_disconnect(d) ==
    [d EXCEPT !.f.connected = FALSE, !.f.conn_handle = NoConn,
              !.f.accel_handle = NoConn]

\* scan(): gap_scan starts a scan
scan(d) ==
    IF ~d.f.scanning
    THEN [d EXCEPT !.f.scanning = TRUE, !.radio = TRUE, !.connects = 0]
    ELSE d

\* read_accelerometer(): accel_handle is tested for truth
read_accelerometer(d) ==
    IF d.f.connected /\ d.f.accel_handle # NoConn /\ d.f.accel_handle # 0
    THEN [d EXCEPT !.reading = TRUE]
    ELSE d

\* run(), one pass of its loop
run_pass(d) == IF ~d.f.connected THEN scan(d) ELSE read_accelerometer(d)

MStep(ev, d) ==
    /\ dev' = [d EXCEPT !.ev = ev, !.pre = dev.f]
    /\ UNCHANGED <<cen, acen, res, ares, call, scope, tsess, task, poll, per, pcall,
                   codec>>

ScanResult ==
    \E name \in AdvertisedNames :
        /\ dev.radio
        /\ name = PERIPHERAL_NAME =>
              dev.pending < MaxConnects /\ dev.connects < MaxConnects
        /\ MStep(IF name = PERIPHERAL_NAME THEN "scan_result_match" ELSE "scan_result",
                 irq_scan_result(dev, name))

\* the stack ends its scan
ScanDone ==
    /\ dev.radio
    /\ MStep("scan_done", irq_scan_done([dev EXCEPT !.radio = FALSE]))

\* the stack has made the connection a gap_connect asked for
PeripheralConnect ==
    \E conn_handle \in ConnHandles :
        /\ dev.pending > 0 /\ dev.link = NoConn
        /\ MStep("connect", irq_connect([dev EXCEPT !.pending = @ - 1,
                                                      !.link = conn_handle],
                                        conn_handle))

ServiceResult ==
    \E match \in BOOLEAN :
        /\ dev.link # NoConn /\ dev.discover = "services"
        /\ MStep("service_result", irq_service_result(dev, match))

CharacteristicResult ==
    \E match \in BOOLEAN, value_handle \in ValueHandles :
        /\ dev.link # NoConn /\ dev.discover = "characteristics"
        /\ MStep("characteristic_result",
                 irq_characteristic_result(dev, match, value_handle))

\* the answer to a gattc_read
ReadResult ==
    \E platform \in Platforms, payload \in {<<100, 0, 56, 255, 44, 1>>, <<100, 0, 56>>} :
        /\ dev.link # NoConn /\ dev.reading
        /\ MStep(IF irq_read_result(payload, platform).log = "xyz" THEN "read_result"
                 ELSE "read_invalid",
                 [dev EXCEPT !.reading = FALSE])

\* the link is gone
PeripheralDisconnect ==
    /\ dev.link # NoConn
    /\ MStep("disconnect", irq_disconnect([dev EXCEPT !.link = NoConn,
                                                        !.discover = "none",
                                                        !.reading = FALSE]))

RunPass ==
    MStep(IF dev.f.connected THEN "run_read" ELSE "run_scan", run_pass(dev))

NextMicro ==
    \/ ScanResult \/ ScanDone \/ PeripheralConnect \/ ServiceResult
    \/ CharacteristicResult \/ ReadResult \/ PeripheralDisconnect \/ RunPass

SpecMicro == Init /\ [][NextMicro]_vars

----------------------------------------------------------------------------
(* Claims checked under Spec *)

ResolveFailures == {"RuntimeError", "ResolveError"}
ConnectFailures == {"ConnectError", "TimeoutError"} \cup ResolveFailures
AllResolved(calls) == \A n \in Channels : Count(calls, "resolve_" \o n) = 1
\* the call opened a transport link
OpenedLink(pre, s) == s.epoch > pre.epoch

\* C1: connect() with max_retries = 3 against a transport whose connect fails
\* every time issues exactly 3 transport connects, sleeps retry_delay between
\* consecutive attempts, and ends not connected.
C1_RetryBudgetUsed ==
    (call.op = "connect" /\ ~call.pre.connected /\ res.caught = "ConnectError") =>
        /\ Count(res.calls, "connect") = max_retries
        /\ Count(res.calls, "sleep") = (max_retries - 1) * retry_delay
        /\ ~cen.connected

\* C2: connect() and connect_async() never raise: on a failed transport
\* connect, a service-discovery timeout or a characteristic that does not
\* resolve they return False and leave connected False.
C2_ConnectNeverRaises ==
    call.op = "connect" =>
        /\ res.exc = "none" /\ ares.exc = "none"
        /\ res.ret \in {"True", "False"} /\ ares.ret \in {"True", "False"}
        /\ (res.caught # "none" =>
               res.caught \in ConnectFailures /\ res.ret = "False" /\ ~cen.connected)
        /\ (ares.caught # "none" =>
               ares.caught \in ConnectFailures /\ ares.ret = "False" /\ ~acen.connected)
        /\ (res.ret = "False" => res.caught # "none")
        /\ (ares.ret = "False" => ares.caught # "none")

C2_Witness ==
    /\ call.op = "connect"
    /\ res.caught = "TimeoutError" /\ res.ret = "False" /\ ~cen.connected
    /\ ares.caught = "TimeoutError" /\ ares.ret = "False" /\ ~acen.connected
    /\ Count(res.calls, "sleep") = PollBudget

\* C3: a failed connect() leaves nothing half-initialized: connected is False,
\* no registry is held, and no link this connect opened stays open.
C3_NoHalfInitialized ==
    (call.op = "connect" /\ res.ret = "False") =>
        /\ ~cen.connected
        /\ ~cen.chars.present
        /\ ~(OpenedLink(call.pre, cen) /\ cen.link)

\* C4: a transport read that fails on a Ready session returns None without
\* raising and clears connected, and the read_imu_data call that follows starts
\* with a fresh transport connect and resolves the registry anew before it reads.
C4_FreshConnect(r, pre, s) ==
    /\ Len(r.calls) > 0 /\ r.calls[1] = "connect"
    /\ r.readHandle # NoHandle =>
          /\ OpenedLink(pre, s) /\ AllResolved(r.calls)
          /\ r.readHandle.epoch = pre.epoch + 1
    /\ r.ret = "Data" => r.readHandle # NoHandle

C4_ReadFailureDemotes ==
    /\ (call.op = "read" /\ ReadFailed(res)) =>
          res.ret = "None" /\ res.exc = "none" /\ ~cen.connected
    /\ (call.op = "read" /\ ReadFailed(ares)) =>
          ares.ret = "None" /\ ares.exc = "none" /\ ~acen.connected
    /\ (call.op = "read" /\ call.afterFailedRead) =>
          ~call.pre.connected /\ C4_FreshConnect(res, call.pre, cen)
    /\ (call.op = "read" /\ call.aafterFailedRead) =>
          ~call.apre.connected /\ C4_FreshConnect(ares, call.apre, acen)

C4_Witness ==
    /\ call.op = "read" /\ call.afterFailedRead /\ call.aafterFailedRead
    /\ call.pre.chars.present /\ call.pre.link
    /\ res.ret = "Data" /\ ares.ret = "Data"
    /\ cen.connected /\ acen.connected

\* C5: leaving a connection() block, by its end, by an early return or by a
\* failure raised in it, invokes disconnect exactly once, and afterwards the
\* transport link is down and connected is False.
\* (Stated for the exits in which the transport's own disconnect did not fail.)
C5_ScopedDisconnect ==
    (/\ call.op = "exit" /\ call.how \in {"normal", "return", "raise"}
     /\ res.caught = "none" /\ ares.caught = "none") =>
        /\ res.disconnects = 1 /\ ares.disconnects = 1
        /\ ~cen.connected /\ ~acen.connected
        /\ ~cen.link /\ ~acen.link

\* C6: after disconnect() returns, from any state, connected is False, the
\* registry is None and the link is closed, and disconnect() does not raise.
\* (Stated for the calls in which the transport's own disconnect did not fail.)
C6_DisconnectTearsDown ==
    (call.op = "disconnect" /\ res.caught = "none") =>
        /\ res.exc = "none"
        /\ ~cen.connected
        /\ ~cen.chars.present
        /\ ~cen.link

\* C7: registry resolution is all-or-nothing: a connect in which a descriptor
\* fails to resolve returns False and leaves the registry as it was; the
\* registry is replaced only when all three resolved; no session ever holds a
\* mapping of fewer than the three channels.
C7_Whole(chars) ==
    IF chars.present THEN DOMAIN chars.handles = Channels ELSE chars = NoChars

C7_AllOrNothing(r, pre, s) ==
    /\ C7_Whole(s.chars)
    /\ (r.caught \in ResolveFailures) =>
          r.ret = "False" /\ ~s.connected /\ s.chars = pre.chars
    /\ (s.chars # pre.chars /\ s.chars.present) =>
          r.ret = "True" /\ AllResolved(r.calls) /\ r.caught = "none"

C7_RegistryAllOrNothing ==
    /\ C7_Whole(cen.chars) /\ C7_Whole(acen.chars)
    /\ call.op = "connect" =>
          C7_AllOrNothing(res, call.pre, cen) /\ C7_AllOrNothing(ares, call.apre, acen)

\* two of the three descriptors resolved, the third did not
C7_Witness ==
    /\ call.op = "connect"
    /\ res.caught = "RuntimeError" /\ res.ret = "False"
    /\ Count(res.calls, "resolve_mag") = 1
    /\ cen.chars = NoChars

\* C8: every transport read is issued on a handle of the channel asked for that
\* was resolved on the link the session opened last, never on a handle
\* resolved for an earlier connection.
C8_Fresh(r, s) ==
    r.readHandle # NoHandle =>
        /\ r.readHandle.epoch = s.epoch
        /\ r.readHandle.name = call.arg
        /\ s.chars.present /\ s.chars.handles[call.arg] = r.readHandle

C8_NoStaleHandle ==
    call.op = "read" => C8_Fresh(res, cen) /\ C8_Fresh(ares, acen)

\* the session held handles of its first link and read on one of its second
C8_Witness ==
    /\ call.op = "read"
    /\ call.pre.chars.present /\ call.pre.chars.handles["accel"].epoch = 1
    /\ ~call.pre.connected
    /\ res.readHandle = [name |-> "accel", epoch |-> 2]
    /\ ares.readHandle = [name |-> "accel", epoch |-> 2]

\* C10: driven by the same calls and the same transport outcomes, BLECentral
\* and AsyncBLECentral are in the same state, have issued the same transport
\* calls in the same order and have returned the same result.
C10_VariantsAgree ==
    /\ cen = acen
    /\ res.calls = ares.calls
    /\ res.ret = ares.ret /\ res.data = ares.data
    /\ res.exc = ares.exc /\ res.caught = ares.caught
    /\ res = ares

C10_Witness ==
    /\ call.op = "read" /\ call.afterFailedRead
    /\ res.caught = "RuntimeError" /\ ares.caught = "RuntimeError"
    /\ cen.link /\ acen.link /\ cen.chars.present /\ acen.chars.present
    /\ cen.epoch = 2 /\ acen.epoch = 2

NoReadIssued(r) ==
    /\ r.readHandle = NoHandle
    /\ \A n \in Channels : Count(r.calls, "read_" \o n) = 0

\* C12: a read on a session that is not Ready (not connected, or without a
\* registry) starts with an implicit connect; if that connect fails the read
\* returns None and issues no transport read; if it succeeds the read is issued
\* on the handle that connect has just resolved.
C12_Implicit(r, pre, s) ==
    ~Ready(pre) =>
        /\ Len(r.calls) > 0 /\ r.calls[1] = "connect"
        /\ (r.caught \in ConnectFailures) =>
              r.ret = "None" /\ r.exc = "none" /\ NoReadIssued(r) /\ ~s.connected
        /\ (r.caught \notin ConnectFailures) =>
              /\ OpenedLink(pre, s) /\ AllResolved(r.calls)
              /\ call.arg \in Channels =>
                    /\ r.readHandle = [name |-> call.arg, epoch |-> pre.epoch + 1]
                    /\ r.readHandle = s.chars.handles[call.arg]
                    /\ r.calls[Len(r.calls)] = "read_" \o call.arg

C12_ImplicitConnect ==
    call.op = "read" =>
        C12_Implicit(res, call.pre, cen) /\ C12_Implicit(ares, call.apre, acen)

\* a demoted session, still holding the handles of its lost link, whose
\* implicit connect times out
C12_Witness ==
    /\ call.op = "read" /\ ~call.pre.connected /\ call.pre.chars.present
    /\ res.caught = "TimeoutError" /\ res.ret = "None" /\ NoReadIssued(res)
    /\ ares.caught = "TimeoutError" /\ ares.ret = "None" /\ NoReadIssued(ares)

\* C13: only a failed transport read demotes the session: a read that fails for
\* another reason (a channel name that is not accel, gyro or mag) is reported
\* to the caller as a failure and leaves the session connected.
C13_OnlyTransportFailureDemotes ==
    (call.op = "read" /\ Ready(call.pre) /\ res.caught \notin {"none", "ReadError"}) =>
        /\ res.ret = "None" /\ res.exc = "none"
        /\ cen.connected

\* C14: an interruption (KeyboardInterrupt, cancellation) inside a connection()
\* block, also one that arrives while connect() is still waiting on a link that
\* is already up, runs the same cleanup as a normal exit: the link is
\* disconnected, connected is False and no registry is held.
\* (Stated for the exits in which the transport's own disconnect did not fail.)
C14_InterruptCleansUp ==
    (/\ call.op \in {"enter", "exit"} /\ call.how = "interrupt"
     /\ res.caught = "none" /\ ares.caught = "none") =>
        /\ res.exc = "KeyboardInterrupt" /\ ares.exc = "KeyboardInterrupt"
        /\ res.disconnects = 1 /\ ares.disconnects = 1
        /\ ~cen.link /\ ~cen.connected /\ ~cen.chars.present
        /\ ~acen.link /\ ~acen.connected /\ ~acen.chars.present

\* C15: a connect() that succeeds issues exactly one transport connect and sets
\* connected; connect() on a connected session returns True and issues no
\* transport connect and no resolution, leaving the session as it was.
C15_Connect(r, pre, s) ==
    /\ (~pre.connected /\ r.ret = "True") =>
          Count(r.calls, "connect") = 1 /\ s.connected /\ OpenedLink(pre, s)
    /\ pre.connected =>
          r.ret = "True" /\ r.calls = <<>> /\ s = pre

C15_ConnectOnce ==
    call.op = "connect" =>
        C15_Connect(res, call.pre, cen) /\ C15_Connect(ares, call.apre, acen)

C15_Witness ==
    /\ call.op = "connect" /\ call.pre.connected /\ call.apre.connected
    /\ res.ret = "True" /\ res.calls = <<>> /\ cen = call.pre
    /\ ares.ret = "True" /\ ares.calls = <<>> /\ acen = call.apre
    /\ cen.epoch = 1

\* little-endian two's complement on 16 bits, written out
C16_Word(lo, hi) == (lo + 256 * hi) - (IF hi >= 128 THEN 65536 ELSE 0)
C16_Decoded(b) == <<C16_Word(b[1], b[2]), C16_Word(b[3], b[4]), C16_Word(b[5], b[6])>>

\* C16: on a connected session read_imu_data(name), for accel, gyro and mag,
\* whose transport read succeeds returns the 3-tuple decoded from exactly the
\* bytes the transport returned, read on the handle resolved for that name, and
\* the session stays connected.
C16_Read(r, pre, s) ==
    /\ (Ready(pre) /\ call.arg \in Channels /\ r.caught = "none") => r.ret = "Data"
    /\ r.ret = "Data" =>
          /\ call.arg \in Channels
          /\ r.readHandle.name = call.arg
          /\ r.readHandle = s.chars.handles[call.arg]
          /\ Count(r.calls, "read_" \o call.arg) = 1
          /\ \A n \in Channels \ {call.arg} : Count(r.calls, "read_" \o n) = 0
          /\ Len(r.data) = 3 /\ r.data = C16_Decoded(call.payload)
          /\ s.connected

C16_ReadDecodes ==
    call.op = "read" => C16_Read(res, call.pre, cen) /\ C16_Read(ares, call.apre, acen)

C16_Witness ==
    /\ call.op = "read" /\ call.arg = "gyro" /\ Ready(call.pre)
    /\ call.payload = <<100, 0, 56, 255, 44, 1>>
    /\ res.data = <<100, -200, 300>> /\ ares.data = <<100, -200, 300>>
    /\ res.readHandle.name = "gyro" /\ cen.connected /\ acen.connected

\* the call is a connect or starts with one
C29_Connects == call.op \in {"connect", "read", "enter"}

C29_FullBudget(r) ==
    /\ Count(r.calls, "connect") <= 1
    /\ Count(r.calls, "sleep") <= PollBudget
    /\ r.caught = "TimeoutError" => Count(r.calls, "sleep") = PollBudget

\* C29: no retry or poll budget is carried from one connect to the next: after
\* any number of failed connects the next connect, explicit or implicit in a
\* read, has the whole 30-poll budget, does what a connect on a new session
\* does, and can succeed.
C29_BudgetsReset ==
    /\ C29_Connects => C29_FullBudget(res) /\ C29_FullBudget(ares)
    /\ (call.afterFailedConnect /\ ~cen.connected) =>
          \A env \in ConnectEnv :
              connect(cen, env).r = connect([InitSession EXCEPT !.epoch = cen.epoch], env).r
    /\ (call.afterFailedConnect /\ ~acen.connected) =>
          \A env \in ConnectEnv :
              connect_async(acen, env).r =
                  connect_async([InitSession EXCEPT !.epoch = acen.epoch], env).r

\* after failed connects that opened two links, a connect needs all 30 polls
\* and succeeds
C29_Witness ==
    /\ call.op = "connect" /\ call.afterFailedConnect
    /\ call.pre.epoch = 2 /\ ~call.pre.connected
    /\ res.ret = "True" /\ Count(res.calls, "sleep") = PollBudget /\ cen.connected
    /\ ares.ret = "True" /\ Count(ares.calls, "sleep") = PollBudget /\ acen.connected

\* C30: transport connects and transport disconnects alternate: the session
\* issues a transport connect only while it has no link open, so that no link
\* it opened is abandoned.
C30_ConnectOnlyWhenLinkDown ==
    /\ Count(res.calls, "connect") > 0 => ~call.pre.link
    /\ Count(ares.calls, "connect") > 0 => ~call.apre.link

\* the registry names the three channels, each by a handle resolved on the
\* link the session opened last
C31_Resolved(s) ==
    /\ s.chars.present
    /\ DOMAIN s.chars.handles = Channels
    /\ \A n \in Channels : s.chars.handles[n] = [name |-> n, epoch |-> s.epoch]

\* the registry was left alone, dropped, or put in place with three handles
\* of one link
C31_AsAWhole(pre, s) ==
    \/ s.chars = pre.chars
    \/ s.chars = NoChars
    \/ /\ DOMAIN s.chars.handles = Channels
       /\ \A n \in Channels : s.chars.handles[n] = [name |-> n, epoch |-> s.epoch]

\* C31: in every state a single caller reaches with connect, read and
\* disconnect, on the BLECentral and on the AsyncBLECentral, connected implies
\* that the registry is there and holds a resolved handle for accel, gyro
\* and mag; and a call replaces the registry only as a whole.
C31_ConnectedHasRegistry ==
    /\ cen.connected => C31_Resolved(cen)
    /\ acen.connected => C31_Resolved(acen)
    /\ C31_AsAWhole(call.pre, cen) /\ C31_AsAWhole(call.apre, acen)

\* a disconnect dropped the registry of the first link; the session is
\* connected again with the three handles of its second link
C31_Witness ==
    /\ call.op = "connect" /\ call.pre.chars = NoChars /\ call.pre.epoch = 1
    /\ res.ret = "True" /\ cen.connected /\ cen.epoch = 2
    /\ cen.chars.handles["mag"] = [name |-> "mag", epoch |-> 2]
    /\ acen.connected /\ acen.chars.handles["mag"] = [name |-> "mag", epoch |-> 2]

----------------------------------------------------------------------------
(* Claims checked under SpecPoll *)

C11_Waiting == poll.pc \in {"test", "check"}
C11_Done == poll.pc \in {"load", "timeout"}

C11_Bounded ==
    /\ poll.pc # "idle" =>
          /\ poll.slept <= PollBudget
          /\ poll.retry = PollBudget - poll.slept
    \* a sleep is taken only after a read that found the services unresolved
    /\ (poll.pc = "test" /\ poll.slept > 0) => ~poll.resolved
    \* the loop is left at the first read that finds them resolved, or with
    \* the budget used up
    /\ poll.pc = "check" => (poll.resolved \/ poll.slept = PollBudget)
    \* the timeout is raised exactly when the read after the loop finds them
    \* unresolved; otherwise the registry is resolved next
    /\ C11_Done => (poll.pc = "timeout" <=> ~poll.resolved)

\* C11: the wait for service discovery inside connect is bounded whatever the
\* device does with services_resolved: at most 30 polls of 0.5 s, after which
\* the attempt ends; it fails with the discovery timeout exactly when the
\* services are unresolved at the read after the last poll, and goes on to
\* resolve the registry as soon as a read finds them resolved.
C11_PollTerminates == [](C11_Bounded) /\ (C11_Waiting ~> C11_Done)

\* the services were never resolved: 30 polls, then the timeout
C11_Witness ==
    poll.pc = "timeout" /\ poll.slept = PollBudget /\ poll.retry = 0 /\ ~poll.resolved

----------------------------------------------------------------------------
(* Claims checked under SpecTasks *)

InOperation(t) == task[t].pc # "idle"

\* C9: on one AsyncBLECentral no two of connect_async, read_imu_data_async and
\* disconnect_async are in progress at once, whatever the interleaving of the
\* tasks that call them.
C9_OneOperationAtATime ==
    \A t1, t2 \in 1..NumTasks : t1 # t2 => ~(InOperation(t1) /\ InOperation(t2))

----------------------------------------------------------------------------
(* Claims checked under SpecPeripheral *)

\* C17: stop() is idempotent: a second stop(), and a stop() on a peripheral that
\* was never started, raises no error, and the second call leaves the state
\* the first one left.
C17_StopIdempotent ==
    /\ pcall.op = "stop" => pcall.exc = "none" /\ ~per.running
    /\ (pcall.op = "stop" /\ pcall.prev = "stop") => per = pcall.pre

\* stop() twice on a serving IMUPeripheral, before start() has unwound
C17_Witness ==
    /\ pcall.op = "stop" /\ pcall.prev = "stop"
    /\ per.variant = "sync" /\ per.pc = "serving" /\ per.loop = "quit"
    /\ per = pcall.pre /\ pcall.exc = "none"

\* the thread in start() has returned, or is blocked in a main loop that nobody
\* has told to quit
C18_Quiescent ==
    \/ per.pc \in {"returned", "failed"}
    \/ per.variant = "sync" /\ per.pc = "serving" /\ per.loop = "running"

\* C18: once stop() has returned on an IMUPeripheral / AsyncIMUPeripheral that
\* was started, and start() has nothing left to do, the advertisement is
\* unregistered, the adapter is not discoverable and running is False.
C18_StopTearsDown ==
    (per.variant \in {"sync", "async"} /\ per.stopDone /\ C18_Quiescent) =>
        /\ ~per.registered
        /\ ~per.discoverable
        /\ ~per.running

\* C19: when register_advertisement fails, start() raises the registration
\* error, running is False and was never set, the serve loop was not entered
\* and no advertisement is registered.
C19_RegisterFailureIsFatal ==
    (pcall.op = "register" /\ pcall.arg = "raise") =>
        /\ per.pc = "failed"
        /\ pcall.exc = "RegisterError" /\ per.err = "RegisterError"
        /\ ~per.running /\ ~per.everRunning
        /\ ~per.served
        /\ ~per.registered

\* C20: an IMUPeripheral never serves without a sensor: when detectIMU()
\* reports 99 or initIMU() fails, __init__ raises, no service or characteristic
\* is added to the GATT application, and running is never True.
C20_NoSensorNoService ==
    /\ (/\ pcall.op = "construct" /\ per.variant \in {"sync", "async"}
        /\ (pcall.version = NoIMU \/ pcall.arg = "initfail")) =>
          /\ pcall.exc = "RuntimeError"
          /\ ~per.constructed /\ per.managed = 0
    /\ (per.variant \in {"sync", "async"} /\ per.imu # "ok") =>
          /\ ~per.constructed /\ per.managed = 0 /\ per.pc = "none"
          /\ ~per.running /\ ~per.everRunning /\ ~per.served
          /\ ~per.registered

\* the probe reports 99: the adapter was configured, nothing else was set up
C20_Witness ==
    /\ pcall.op = "construct" /\ per.variant = "async" /\ pcall.version = NoIMU
    /\ pcall.exc = "RuntimeError" /\ per.imu = "absent"
    /\ ~per.constructed /\ per.managed = 0 /\ per.discoverable

\* the main loop is serving reads
C21_Serving(p) == p.variant = "sync" /\ p.pc = "serving" /\ p.loop = "running"

\* C21: a sensor failure in a read callback touches that read only: the read
\* fails at its requester and hands back no bytes, and the peripheral is as it
\* was (running as before), its advertisement registered, still serving reads.
C21_ReadFailureIsLocal ==
    (pcall.op = "read" /\ pcall.exc # "none") =>
        /\ pcall.data = NoData
        /\ per = pcall.pre
        /\ per.registered /\ C21_Serving(per)

\* the gyroscope fails in one read, the next read of it is served
C21_Witness ==
    /\ pcall.op = "read" /\ pcall.arg = "gyro"
    /\ pcall.prev = "read" /\ pcall.prevExc = "SensorError"
    /\ pcall.exc = "none" /\ pcall.data = <<255, 255, 0, 0, 1, 0>>
    /\ per.running /\ per.registered

\* C22: a read callback that returns hands back six bytes: x, y and z of its
\* channel in this order, each as 16-bit two's complement, low byte first.
C22_CallbackPacks ==
    (pcall.op = "read" /\ pcall.exc = "none") =>
        /\ Len(pcall.data) = 6
        /\ \A i \in 1..6 : pcall.data[i] \in 0..255
        /\ \A k \in 1..3 :
              (pcall.data[2 * k - 1] + 256 * pcall.data[2 * k]
                  - pcall.sample.xyz[pcall.arg][k]) % 65536 = 0

\* (100, -200, 300) on the accelerometer: 64 00 38 FF 2C 01
C22_Witness ==
    /\ pcall.op = "read" /\ pcall.arg = "accel" /\ pcall.exc = "none"
    /\ pcall.sample.xyz["accel"] = <<100, -200, 300>>
    /\ pcall.data = <<100, 0, 56, 255, 44, 1>>

\* C27 as stated: start() sets running after it registered the advertisement,
\* and running is True when start() returns without error.
C27_RunningAtReturn ==
    /\ pcall.op = "set_running" => pcall.pre.registered /\ per.running
    /\ (per.variant \in {"sync", "async"} /\ per.pc = "returned") => per.running

\* C27: start() sets running after it registered the advertisement, and
\* running stays True while start() serves and no stop() is called. The return
\* of start() leaves running as it is: True when start() returns without error
\* and no stop() was called during it, False when a stop() during the serve
\* loop made it return; start_async() returns with running False only.
C27_RunningUntilStopped ==
    /\ pcall.op = "set_running" => pcall.pre.registered /\ per.running
    /\ (/\ per.variant \in {"sync", "async"}
        /\ per.pc \in {"running_set", "serving"} /\ ~per.stopDone) => per.running
    /\ (per.variant \in {"sync", "async"} /\ per.pc = "returned") =>
          /\ ~per.stopDone => per.running
          /\ pcall.op \in {"run_returns", "loop"} => per.running = pcall.pre.running
          /\ per.variant = "async" => ~per.running

\* stop() ended the main loop: start() has returned without error, running is
\* False
C27_Witness ==
    /\ per.variant = "sync" /\ per.pc = "returned" /\ pcall.op = "run_returns"
    /\ pcall.exc = "none" /\ per.everRunning /\ per.stopDone /\ ~per.running

\* the readings of the tick fit 16 bits and no read of the sensor failed
C28_GoodTick ==
    /\ pcall.op = "loop" /\ per.variant = "pull" /\ pcall.pre.running
    /\ pcall.sample.failAt = "none"
    /\ \A c \in Channels : pack_hhh(pcall.sample.xyz[c]).exc = "none"

\* C28: in the pull-refresh peripheral a tick whose sensor reads all succeed
\* leaves in each characteristic the six bytes of the values read in the tick,
\* and a tick in which a sensor read fails leaves running True.
C28_TickPublishes ==
    /\ C28_GoodTick =>
          \A c \in Channels : per.values[c] = pack_hhh(pcall.sample.xyz[c]).data
    /\ (/\ pcall.op = "loop" /\ per.variant = "pull" /\ pcall.pre.running
        /\ pcall.sample.failAt # "none") => per.running

\* C32: in the IMUPeripheral and the AsyncIMUPeripheral running follows the
\* advertisement: in every state of start(), start_async() and stop(), running
\* implies that the advertisement is registered; running is never True once
\* the advertising scope was left, whether start returned or raised.
C32_RunningImpliesRegistered ==
    /\ (per.variant \in {"sync", "async"} /\ per.running) => per.registered
    /\ (per.variant \in {"sync", "async"} /\ per.pc \in {"returned", "failed"}) =>
          ~per.running

\* C33: the advertising scope unregisters what it registered and nothing
\* else: unregister_advertisement is called once for each register_advertisement
\* that succeeded, when the scope is left, and is not called when
\* register_advertisement failed.
C33_UnregisterMatchesRegister ==
    per.variant \in {"sync", "async"} =>
        /\ per.pc \in {"advertising", "running_set", "serving"} =>
              per.regs = 1 /\ per.unregs = 0
        /\ per.pc \in {"returned", "failed"} => per.unregs = per.regs
        /\ (pcall.op = "register" /\ pcall.arg = "raise") => per.unregs = 0

----------------------------------------------------------------------------
(* Claims checked under SpecPeripheralFair *)

\* a stop() has returned while start_async() is under way
C34_Stopped ==
    /\ per.variant = "async" /\ per.stopDone
    /\ per.pc \in {"configured", "advertising", "running_set", "serving"}

\* start_async() is over and no advertisement is registered
C34_Ended == per.pc \in {"returned", "failed"} /\ ~per.registered

\* C34: for the AsyncIMUPeripheral, with the event loop running start_async
\* on, and whenever stop() comes (also before start_async has set running):
\* once a stop() has returned, start_async leaves its loop and returns, and
\* the advertisement is unregistered.
C34_StopEndsStartAsync == C34_Stopped ~> C34_Ended

----------------------------------------------------------------------------
(* Claims checked under SpecCodec *)

\* the three decoders give v back for a triple of three v
C23_ValueSurvives(v) ==
    LET b == pack_hhh(<<v, v, v>>)
    IN /\ b.exc = "none" /\ Len(b.data) = 6
       /\ bytes_to_xyz(b.data) = <<v, v, v>>
       /\ unpack_hhh(b.data) = [exc |-> "none", xyz |-> <<v, v, v>>]
       /\ unpack_hhh_micropython(b.data) = [exc |-> "none", xyz |-> <<v, v, v>>]

C24_LengthChecked ==
    codec.op \in {"central_read", "micro_read"} =>
        /\ Len(codec.payload) # 6 =>
              /\ codec.out = <<>> /\ codec.exc = "none"
              /\ codec.op = "central_read" => codec.ret = "None"
              /\ codec.op = "micro_read" => codec.log = "invalid"
        /\ Len(codec.payload) = 6 => Len(codec.out) = 3 /\ codec.exc = "none"

\* C25: handle_notification drops a payload that is not 36 bytes long: it logs
\* an error, unpacks and delivers nothing, raises nothing and leaves the
\* subscription as it is; a payload of 36 bytes is unpacked into nine values.
C25_MalformedDropped ==
    codec.op = "notify" =>
        /\ codec.exc = "none" /\ codec.subscribed
        /\ Len(codec.payload) # 36 => codec.log = "error" /\ codec.out = <<>>
        /\ Len(codec.payload) = 36 => codec.log = "frame" /\ Len(codec.out) = 9

\* the seven bytes of b"No data" arrive as a notification
C25_Witness ==
    /\ codec.op = "notify" /\ codec.payload = NoDataReply
    /\ codec.log = "error" /\ codec.out = <<>> /\ codec.exc = "none"
    /\ codec.subscribed

\* C26: every payload the composite sender serves is a frame of 36 bytes, the
\* nine values of its latest sample in the order accel x, y, z, gyro x, y, z,
\* mag x, y, z, which is the order the receiver unpacks; also for a read
\* before the first sample.
C26_ServesFrames ==
    /\ codec.op = "serve" =>
          /\ Len(codec.payload) = 36
          /\ codec.payload = pack_9f(codec.last)
    /\ (codec.op = "notify" /\ codec.packed) =>
          codec.out = codec.last.accel \o codec.last.gyro \o codec.last.mag

----------------------------------------------------------------------------
(* Claims checked under SpecMicro *)

\* C35: in the CentralDevice, whatever the order in which the stack delivers
\* scan results, scan done, connect, characteristic results and disconnect
\* between the passes of run(): it is never scanning while connected, one
\* scan leads to at most one gap_connect, connected implies that conn_handle
\* is set, and a disconnect event clears connected, conn_handle and
\* accel_handle together.
C35_LinkStateConsistent ==
    /\ ~(dev.f.scanning /\ dev.f.connected)
    /\ dev.connects <= 1
    /\ dev.f.connected => dev.f.conn_handle # NoConn
    /\ dev.ev = "disconnect" =>
          /\ ~dev.f.connected
          /\ dev.f.conn_handle = NoConn /\ dev.f.accel_handle = NoConn

=============================================================================
